---- MODULE Spec2Model ----
(***************************************************************************)
(* Deterministic intent resolution of ioBroker.ai-assistant:               *)
(* EnumResolver (load, findStates, _findEnum, device-name search) and      *)
(* IntentParser (parse, _calcConfidence), as state machines.               *)
(*                                                                         *)
(* A JavaScript string is a sequence of one-character strings, so that     *)
(* includes / startsWith / endsWith / split / toLowerCase are computed on  *)
(* characters.  A non-ASCII character is one element with a two- or three- *)
(* letter token: "ae" "oe" "ue" "ss" "deg" stand for the single characters *)
(* a-umlaut, o-umlaut, u-umlaut, sharp s and the degree sign.              *)
(***************************************************************************)
EXTENDS Integers, Sequences, FiniteSets, TLC

VARIABLES
    store,              \* the object store's enum objects: [rooms, functions]
    rooms,              \* EnumResolver.rooms: Map id -> {id, name, members}, in insertion order
    functions,          \* EnumResolver.functions
    stateToRooms,       \* EnumResolver._stateToRooms: member -> list of room names
    stateToFunctions,   \* EnumResolver._stateToFunctions
    fsArgs,             \* arguments of the findStates call under test: [room, function]
    fsPc,               \* "idle" (no call), "ready" (call pending), "returned"
    fsResult,           \* its return value once fsPc = "returned"
    ready,              \* onReady has awaited the first load(): parser and change handler exist
    loadPc,             \* per load() call: "idle", "awaitRooms", "awaitFuncs", "resolved", "rejected"
    loadFetched,        \* per load() call: what its two fetches gave, [rooms, functions]
    loadPre,            \* per load() call: the rooms/functions maps when it was called
    loadSeen,           \* per load() call: the maps readers saw while it was suspended
    lastLoads,          \* the last two completed load() calls: <<previous, latest>>
    parsePc,            \* the parse() call: "idle", "awaitSearch", "awaitFilter", "returned"
    parseText,          \* its argument
    parseLocals,        \* its local variables across the awaits
    parseIntent,        \* its return value once parsePc = "returned"
    ccArgs,             \* arguments of the confidence computation under test
    ccPc,               \* "idle" (no call), "ready" (call pending), "returned"
    ccResult,           \* the confidence it gave
    ptPc,               \* _processText: "idle", "fast", "llm", "returned", "rejected"
    exec,               \* _executeFastIntent: its position, argument and locals
    writes,             \* the setForeignStateAsync calls issued: [stateId, value, ok]
    lastResponse,       \* the adapter's own state lastResponse has been set
    pfArgs,             \* arguments of the parser or resolver function under test
    pfPc,               \* "idle" (no call), "ready" (call pending), or the function that returned
    pfResult,           \* what it returned
    race,               \* two overlapping commands on one state: the stored value and each command's position
    llm                 \* ActionExecutor: the template, the writes the LLM proposed, and the executed and denied lists

resolverVars == <<rooms, functions, stateToRooms, stateToFunctions>>
findVars == <<fsArgs, fsPc, fsResult>>
loadVars == <<ready, loadPc, loadFetched, loadPre, loadSeen, lastLoads>>
parseVars == <<parsePc, parseText, parseLocals, parseIntent>>
confVars == <<ccArgs, ccPc, ccResult>>
execVars == <<ptPc, exec, writes, lastResponse>>
pureVars == <<pfArgs, pfPc, pfResult>>
vars == <<store, resolverVars, findVars, loadVars, parseVars, confVars, pureVars, execVars, race, llm>>

----------------------------------------------------------------------------
(* Bounds *)

MaxMembers == 2         \* longest member list drawn for a group in SpecFind
MaxDevices == 3         \* most states drawn for searchByDeviceName and filterByDeviceName in SpecPure
MaxActions == 2         \* most writes the LLM proposes in one answer in SpecLlm

----------------------------------------------------------------------------
(* JavaScript values *)

Undefined == <<"undefined">>        \* undefined / null where a string is expected
NullEntry == [id |-> Undefined, name |-> Undefined, members |-> <<>>]
IsNull(entry) == entry.id = Undefined

Min(S) == CHOOSE x \in S : \A y \in S : x <= y
Max(S) == CHOOSE x \in S : \A y \in S : x >= y

Range(seq) == {seq[i] : i \in 1..Len(seq)}

\* Array.prototype.includes
ArrIncludes(seq, x) == \E i \in 1..Len(seq) : seq[i] = x

\* truthiness of a string argument: undefined, null and '' are falsy
Truthy(s) == s # Undefined /\ s # <<>>

----------------------------------------------------------------------------
(* String primitives *)

StartsWithAt(s, p, i) ==
    /\ i >= 1
    /\ i + Len(p) - 1 <= Len(s)
    /\ \A k \in 1..Len(p) : s[i + k - 1] = p[k]

\* String.prototype.includes
Includes(s, p) == \E i \in 1..(Len(s) - Len(p) + 1) : StartsWithAt(s, p, i)

\* String.prototype.endsWith
EndsWith(s, p) == Len(p) <= Len(s) /\ StartsWithAt(s, p, Len(s) - Len(p) + 1)

\* String.prototype.toLowerCase
ToLowerCase(s) ==
    LET upper == <<"A","B","C","D","E","F","G","H","I","J","K","L","M","N","O","P","Q","R","S","T",
                 "U","V","W","X","Y","Z","AE","OE","UE">>
        lower == <<"a","b","c","d","e","f","g","h","i","j","k","l","m","n","o","p","q","r","s","t",
                 "u","v","w","x","y","z","ae","oe","ue">>
        lowerChar(c) == IF \E i \in 1..Len(upper) : upper[i] = c
                        THEN lower[CHOOSE i \in 1..Len(upper) : upper[i] = c]
                        ELSE c
    IN  [i \in 1..Len(s) |-> lowerChar(s[i])]

SpaceChars == {" ", "\t", "\n"}
IsSpace(c) == c \in SpaceChars

\* String.prototype.trim
Trim(s) ==
    LET keep == {i \in 1..Len(s) : ~IsSpace(s[i])}
    IN  IF keep = {} THEN <<>> ELSE SubSeq(s, Min(keep), Max(keep))

\* id.split('.').pop()
LastSegment(s) ==
    LET dots == {i \in 1..Len(s) : s[i] = "."}
    IN  IF dots = {} THEN s ELSE SubSeq(s, Max(dots) + 1, Len(s))

\* [...new Set(array)]: first occurrences, in order
RECURSIVE SetOf(_)
SetOf(seq) ==
    IF seq = <<>> THEN <<>>
    ELSE LET front == SetOf(SubSeq(seq, 1, Len(seq) - 1))
             last  == seq[Len(seq)]
         IN  IF ArrIncludes(front, last) THEN front ELSE Append(front, last)

----------------------------------------------------------------------------
(* EnumResolver: names and fuzzy lookup *)

\* a common.name value: absent, a plain string, or a per-language object
NameAbsent == [kind |-> "none", str |-> Undefined, de |-> Undefined, en |-> Undefined]
NameStr(s) == [kind |-> "string", str |-> s, de |-> Undefined, en |-> Undefined]
NameI18n(de, en) == [kind |-> "object", str |-> Undefined, de |-> de, en |-> en]

\* EnumResolver._getName: display name of a store object [id, name, ...]
_getName(obj) ==
    LET name == obj.name
        fallback == IF Truthy(obj.id) THEN obj.id ELSE <<"U","n","b","e","k","a","n","n","t">>
    IN  IF name.kind = "none" THEN fallback
        ELSE IF name.kind = "string"
             THEN (IF name.str = <<>> THEN fallback ELSE name.str)
        ELSE IF Truthy(name.de) THEN name.de
        ELSE IF Truthy(name.en) THEN name.en
        ELSE obj.id

\* EnumResolver._findEnum: exact name, name includes search, search includes
\* name, id suffix, alias groups; the first tier with a hit returns its first
\* entry in Map order
_findEnum(enumMap, searchName) ==
    LET aliasGroups ==
            <<
            <<
            <<"l","i","c","h","t">>, <<"l","a","m","p","e">>, <<"l","a","m","p","e","n">>,
            <<"b","e","l","e","u","c","h","t","u","n","g">>, <<"l","e","u","c","h","t","e">>,
            <<"l","e","u","c","h","t","e","n">>, <<"l","i","g","h","t","i","n","g">>, <<"l","i","g","h","t">> >>,
            <<
            <<"h","e","i","z","u","n","g">>, <<"t","h","e","r","m","o","s","t","a","t">>,
            <<"t","e","m","p","e","r","a","t","u","r">>, <<"h","e","i","z","k","oe","r","p","e","r">>,
            <<"h","e","i","z","e","n">>, <<"h","e","a","t","i","n","g">> >>,
            <<
            <<"r","o","l","l","l","a","d","e","n">>, <<"r","o","l","l","a","d","e","n">>, <<"r","o","l","l","o">>,
            <<"j","a","l","o","u","s","i","e">>, <<"j","a","l","o","u","s","i","e","n">>,
            <<"b","e","s","c","h","a","t","t","u","n","g">>, <<"s","h","u","t","t","e","r">>,
            <<"b","l","i","n","d">>, <<"b","l","i","n","d","s">> >>,
            <<
            <<"s","t","e","c","k","d","o","s","e">>, <<"s","t","e","c","k","e","r">>, <<"d","o","s","e">>,
            <<"s","o","c","k","e","t">>, <<"o","u","t","l","e","t">> >>,
            <<
            <<"f","e","n","s","t","e","r">>, <<"f","e","n","s","t","e","r","k","o","n","t","a","k","t">>,
            <<"f","e","n","s","t","e","r","s","e","n","s","o","r">>, <<"w","i","n","d","o","w">> >>,
            <<
            <<"t","ue","r">>, <<"t","ue","r","k","o","n","t","a","k","t">>,
            <<"t","ue","r","s","e","n","s","o","r">>, <<"d","o","o","r">> >>,
            <<
            <<"v","e","n","t","i","l","a","t","o","r">>, <<"l","ue","f","t","e","r">>, <<"f","a","n">> >>,
            <<
            <<"w","o","h","n","z","i","m","m","e","r">>, <<"w","o","h","n","r","a","u","m">>,
            <<"s","t","u","b","e">>, <<"l","i","v","i","n","g","_","r","o","o","m">>,
            <<"l","i","v","i","n","g","r","o","o","m">> >>,
            <<
            <<"s","c","h","l","a","f","z","i","m","m","e","r">>, <<"b","e","d","r","o","o","m">>,
            <<"s","c","h","l","a","f","r","a","u","m">> >>,
            <<
            <<"b","a","d","e","z","i","m","m","e","r">>, <<"b","a","d">>, <<"b","a","t","h","r","o","o","m">> >>,
            <<
            <<"k","ue","c","h","e">>, <<"k","u","e","c","h","e">>, <<"k","i","t","c","h","e","n">> >>,
            <<
            <<"b","ue","r","o">>, <<"b","u","e","r","o">>, <<"a","r","b","e","i","t","s","z","i","m","m","e","r">>,
            <<"o","f","f","i","c","e">> >>,
            <<
            <<"k","i","n","d","e","r","z","i","m","m","e","r">>, <<"c","h","i","l","d","r","e","n">>,
            <<"k","i","d","s">> >>,
            <<
            <<"f","l","u","r">>, <<"d","i","e","l","e">>, <<"g","a","n","g">>, <<"c","o","r","r","i","d","o","r">>,
            <<"h","a","l","l","w","a","y">> >>,
            <<
            <<"e","s","s","z","i","m","m","e","r">>, <<"e","s","s","b","e","r","e","i","c","h">>,
            <<"d","i","n","i","n","g">> >> >>
        \* alias.includes(search) || search.includes(alias), for some alias of the group
        AliasGroupHit(group, s) ==
            \E k \in 1..Len(group) : Includes(group[k], s) \/ Includes(s, group[k])
        \* the entry's name or id suffix contains, or is contained in, some alias
        AliasGroupEntry(group, entry) ==
            LET eName   == ToLowerCase(entry.name)
                eSuffix == ToLowerCase(LastSegment(entry.id))
            IN  \E k \in 1..Len(group) :
                    \/ Includes(eName, group[k])   \/ Includes(group[k], eName)
                    \/ Includes(eSuffix, group[k]) \/ Includes(group[k], eSuffix)
        search == Trim(ToLowerCase(searchName))
        idx    == 1..Len(enumMap)
        lname(i)  == ToLowerCase(enumMap[i].name)
        suffix(i) == ToLowerCase(LastSegment(enumMap[i].id))
        t1 == {i \in idx : lname(i) = search}
        t2 == {i \in idx : Includes(lname(i), search)}
        t3 == {i \in idx : Includes(search, lname(i))}
        t4 == {i \in idx : \/ suffix(i) = search
                           \/ Includes(suffix(i), search)
                           \/ Includes(search, suffix(i))}
        gs == {g \in 1..Len(aliasGroups) :
                  /\ AliasGroupHit(aliasGroups[g], search)
                  /\ \E i \in idx : AliasGroupEntry(aliasGroups[g], enumMap[i])}
        t5 == IF gs = {} THEN {}
              ELSE {i \in idx : AliasGroupEntry(aliasGroups[Min(gs)], enumMap[i])}
    IN  IF t1 # {} THEN enumMap[Min(t1)]
        ELSE IF t2 # {} THEN enumMap[Min(t2)]
        ELSE IF t3 # {} THEN enumMap[Min(t3)]
        ELSE IF t4 # {} THEN enumMap[Min(t4)]
        ELSE IF t5 # {} THEN enumMap[Min(t5)]
        ELSE NullEntry

----------------------------------------------------------------------------
(* EnumResolver.findStates *)

\* fId.startsWith(rId + '.')
IsChildOf(fId, rId) == StartsWithAt(fId, rId \o <<".">>, 1)

\* first loop (over roomMembers): an exact match pushes rId, otherwise every
\* function member that is a child of rId is pushed
RECURSIVE ForwardPass(_, _, _)
ForwardPass(roomMembers, funcMembers, i) ==
    IF i > Len(roomMembers) THEN <<>>
    ELSE (IF ArrIncludes(funcMembers, roomMembers[i])
          THEN <<roomMembers[i]>>
          ELSE SelectSeq(funcMembers, LAMBDA fId : IsChildOf(fId, roomMembers[i])))
         \o ForwardPass(roomMembers, funcMembers, i + 1)

\* second loop (fId outer, rId inner): a room member below a function member is
\* pushed unless result already includes it; k counts the (fId, rId) pairs
RECURSIVE ReversePass(_, _, _, _)
ReversePass(roomMembers, funcMembers, result, k) ==
    IF k >= Len(funcMembers) * Len(roomMembers) THEN result
    ELSE LET fId == funcMembers[(k \div Len(roomMembers)) + 1]
             rId == roomMembers[(k % Len(roomMembers)) + 1]
         IN  ReversePass(roomMembers, funcMembers,
                         IF IsChildOf(rId, fId) /\ ~ArrIncludes(result, rId)
                         THEN Append(result, rId) ELSE result,
                         k + 1)

\* findStates without the early returns for an unresolved name: the unresolved
\* side is dropped and the other side decides
findStates_noEarlyReturn(roomMap, funcMap, room, func) ==
    LET intersect(roomMembers, funcMembers) ==
            ReversePass(roomMembers, funcMembers, ForwardPass(roomMembers, funcMembers, 1), 0)
        resolve(rMatch, fMatch) ==
            IF ~IsNull(rMatch) /\ ~IsNull(fMatch)
            THEN intersect(SetOf(rMatch.members), SetOf(fMatch.members))
            ELSE IF ~IsNull(rMatch) THEN SetOf(rMatch.members)
            ELSE IF ~IsNull(fMatch) THEN SetOf(fMatch.members)
            ELSE <<>>
    IN  resolve(IF Truthy(room) THEN _findEnum(roomMap, room) ELSE NullEntry,
                IF Truthy(func) THEN _findEnum(funcMap, func) ELSE NullEntry)

\* EnumResolver.findStates({room, function}) on the maps roomMap / funcMap
findStates(roomMap, funcMap, room, func) ==
    LET intersect(roomMembers, funcMembers) ==
            ReversePass(roomMembers, funcMembers, ForwardPass(roomMembers, funcMembers, 1), 0)
        resolve(rMatch, fMatch) ==
            IF Truthy(room) /\ IsNull(rMatch) THEN <<>>
            ELSE IF Truthy(func) /\ IsNull(fMatch) THEN <<>>
            ELSE IF Truthy(room) /\ Truthy(func)
                 THEN intersect(SetOf(rMatch.members), SetOf(fMatch.members))
            ELSE IF Truthy(room) THEN SetOf(rMatch.members)
            ELSE IF Truthy(func) THEN SetOf(fMatch.members)
            ELSE <<>>
    IN  resolve(IF Truthy(room) THEN _findEnum(roomMap, room) ELSE NullEntry,
                IF Truthy(func) THEN _findEnum(funcMap, func) ELSE NullEntry)

----------------------------------------------------------------------------
(* EnumResolver.load: building the maps from fetched enum objects *)

\* Map.prototype.set: an existing key keeps its position
MapSet(map, id, entry) ==
    IF \E i \in 1..Len(map) : map[i].id = id
    THEN [i \in 1..Len(map) |-> IF map[i].id = id THEN entry ELSE map[i]]
    ELSE Append(map, entry)

\* the reverse-lookup loop over one group's members
RECURSIVE RevPushAll(_, _, _, _)
RevPushAll(rev, members, name, k) ==
    IF k > Len(members) THEN rev
    ELSE LET member == members[k]
             \* if (!rev.has(member)) rev.set(member, []); rev.get(member).push(name)
             pushed == [m \in (DOMAIN rev) \cup {member} |->
                          IF m = member
                          THEN (IF member \in DOMAIN rev THEN Append(rev[member], name)
                                ELSE <<name>>)
                          ELSE rev[m]]
         IN  RevPushAll(pushed, members, name, k + 1)

\* the loop over Object.entries(objs) of load(): skip the root object, set the
\* group and extend the reverse lookup; returns [map, rev]
RECURSIVE FillEnum(_, _, _, _, _)
FillEnum(objs, i, rootId, map, rev) ==
    IF i > Len(objs) THEN [map |-> map, rev |-> rev]
    ELSE IF objs[i].id = rootId THEN FillEnum(objs, i + 1, rootId, map, rev)
    ELSE LET name    == _getName(objs[i])
             members == objs[i].members
         IN  FillEnum(objs, i + 1, rootId,
                      MapSet(map, objs[i].id, [id |-> objs[i].id, name |-> name, members |-> members]),
                      RevPushAll(rev, members, name, 1))


----------------------------------------------------------------------------
(* The installation the processes run against: enum objects of the store *)


\* the string literals of the installation: names, enum ids, object ids
Str ==
    [Bad |-> <<"B","a","d">>,
     bad |-> <<"b","a","d">>,
     Flur |-> <<"F","l","u","r">>,
     Licht |-> <<"L","i","c","h","t">>,
     Light |-> <<"L","i","g","h","t">>,
     Musik |-> <<"M","u","s","i","k">>,
     enum_rooms |-> <<"e","n","u","m",".","r","o","o","m","s">>,
     enum_functions |-> <<"e","n","u","m",".","f","u","n","c","t","i","o","n","s">>,
     rooms_bad |-> <<"e","n","u","m",".","r","o","o","m","s",".","b","a","d">>,
     rooms_flur |-> <<"e","n","u","m",".","r","o","o","m","s",".","f","l","u","r">>,
     functions_licht |-> <<"e","n","u","m",".","f","u","n","c","t","i","o","n","s",".","l","i","c","h","t">>,
     dev_spiegel |-> <<"h","u","e",".","0",".","s","p","i","e","g","e","l">>,
     dev_decke |-> <<"h","u","e",".","0",".","d","e","c","k","e">>,
     dev_wand |-> <<"h","u","e",".","0",".","w","a","n","d">>,
     st_spiegel |-> <<"h","u","e",".","0",".","s","p","i","e","g","e","l",".","o","n">>,
     st_decke |-> <<"h","u","e",".","0",".","d","e","c","k","e",".","o","n">>,
     st_wand |-> <<"h","u","e",".","0",".","w","a","n","d",".","o","n">>,
     st_temp |-> <<"h","u","e",".","0",".","d","e","c","k","e",".","t","e","m","p">>,
     st_lock |-> <<"h","u","e",".","0",".","s","p","i","e","g","e","l",".","l","o","c","k">>,
     hue |-> <<"h","u","e",".","0">>,
     venti |-> <<"0","_","u","s","e","r","d","a","t","a",".","0",".","v","e","n","t","i">>,
     fan |-> <<"0","_","u","s","e","r","d","a","t","a",".","0",".","f","a","n">>,
     a |-> <<"a">>,
     a_b |-> <<"a",".","b">>,
     a_b_c |-> <<"a",".","b",".","c">>,
     ab |-> <<"a","b">>]

EnumObj(id, name, members) == [id |-> id, name |-> name, members |-> members]

\* room Bad holds two devices, function Licht three states
StoreA ==
    [rooms     |-> <<EnumObj(Str.rooms_bad, NameStr(Str.Bad), <<Str.dev_spiegel, Str.dev_decke>>)>>,
     functions |-> <<EnumObj(Str.functions_licht, NameStr(Str.Licht), <<Str.st_spiegel, Str.st_decke, Str.st_wand>>)>>]

\* after an edit: a second room, the root object in the answer, a per-language
\* name and a member listed twice
StoreB ==
    [rooms     |-> <<EnumObj(Str.enum_rooms, NameAbsent, <<>>),
                     EnumObj(Str.rooms_bad, NameStr(Str.Bad), <<Str.dev_spiegel>>),
                     EnumObj(Str.rooms_flur, NameStr(Str.Flur), <<Str.dev_wand>>)>>,
     functions |-> <<EnumObj(Str.functions_licht, NameI18n(Str.Licht, Str.Light),
                             <<Str.st_spiegel, Str.st_wand, Str.st_spiegel>>)>>]

StoreVersions == {StoreA, StoreB}

----------------------------------------------------------------------------
(* Values of IntentParser.parse, and the calls that are not running *)

\* { name, id } of _matchRoom / _matchFunction, or null
NoMatch == [name |-> Undefined, id |-> Undefined]
\* { stateId, deviceName } of searchByDeviceName, or null
NoDirect == [stateId |-> Undefined, deviceName |-> Undefined]
\* { value, unit } of _extractValue, or null; a number is <<mantissa, decimals>>
NullNum == <<>>
NoValue == [present |-> FALSE, value |-> NullNum, unit |-> "null"]
\* action.type of _detectAction, or "null"
NoAction == "null"
WriteActions == {"set_on", "set_off", "set_value", "increase", "decrease"}
\* parse() returned null
NullIntent ==
    [isNull |-> TRUE, action |-> NoAction, room |-> Undefined, function |-> Undefined,
     deviceName |-> Undefined, value |-> NullNum, unit |-> "null",
     confidence |-> <<0, 0>>, stateIds |-> <<>>]

NoLocals ==
    [room |-> NoMatch, func |-> NoMatch, cands |-> <<>>, searched |-> FALSE,
     direct |-> NoDirect, found |-> <<>>, stateIds |-> <<>>,
     snap |-> [rooms |-> <<>>, functions |-> <<>>]]

ParseIdle ==
    /\ parsePc = "idle"
    /\ parseText = <<>>
    /\ parseLocals = NoLocals
    /\ parseIntent = NullIntent

\* _executeFastIntent is not running: no intent, nothing fetched or written
NoExec ==
    [pc |-> "idle", intent |-> NullIntent, k |-> 0, seen |-> <<>>, writableIds |-> <<>>,
     i |-> 0, executed |-> <<>>, denied |-> <<>>, result |-> "none"]

ExecIdle ==
    /\ ptPc = "idle"
    /\ exec = NoExec
    /\ writes = <<>>
    /\ lastResponse = FALSE

\* no command is being processed
NoRace ==
    [stateId |-> Undefined, action |-> NoAction, before |-> 0, val |-> 0,
     pc |-> <<"idle", "idle">>, current |-> <<0, 0>>]

RaceIdle == race = NoRace

\* the action executor has not been called
NoLlm ==
    [mode |-> "none", template |-> [has |-> FALSE, patterns |-> <<>>], actions |-> <<>>,
     i |-> 0, pc |-> "idle", executed |-> <<>>, denied |-> <<>>, writes |-> <<>>, replies |-> <<>>]

LlmIdle == llm = NoLlm

\* no function is under test
NoPureArgs ==
    [kind |-> "null", text |-> <<>>, number |-> NullNum, marker |-> "null", rules |-> {},
     objects |-> <<>>, ids |-> <<>>]

NoPureResult ==
    [value |-> NoValue, action |-> NoAction, direct |-> NoDirect,
     filtered |-> [stateIds |-> <<>>, deviceName |-> Undefined]]

PureIdle ==
    /\ pfArgs = NoPureArgs
    /\ pfPc = "idle"
    /\ pfResult = NoPureResult

ConfIdle ==
    /\ ccArgs = [room |-> FALSE, func |-> FALSE, action |-> NoAction, valueInfo |-> FALSE, deviceName |-> FALSE]
    /\ ccPc = "idle"
    /\ ccResult = <<0, 0>>

----------------------------------------------------------------------------
(* EnumResolver.load as a process: each await is a point where other
   handlers run *)

LoadProcs == {1}

\* what a reader of the resolver sees
Snapshot == [rooms |-> rooms, functions |-> functions]
AllMaps == [rooms |-> rooms, functions |-> functions,
            stateToRooms |-> stateToRooms, stateToFunctions |-> stateToFunctions]
EmptySnapshot == [rooms |-> <<>>, functions |-> <<>>]
\* a fetch of getForeignObjectsAsync(pattern, 'enum'): resolved with objects, or rejected
FetchFailed == [ok |-> FALSE, objs |-> <<>>]
NoFetch == [rooms |-> FetchFailed, functions |-> FetchFailed]
NoLoad == [valid |-> FALSE, fetched |-> NoFetch, maps |-> [rooms |-> <<>>, functions |-> <<>>, stateToRooms |-> <<>>, stateToFunctions |-> <<>>]]

\* load variables of a resolver on which load() is not running
LoadIdle ==
    /\ ready = TRUE
    /\ loadPc = [p \in LoadProcs |-> "idle"]
    /\ loadFetched = [p \in LoadProcs |-> NoFetch]
    /\ loadPre = [p \in LoadProcs |-> EmptySnapshot]
    /\ loadSeen = [p \in LoadProcs |-> {}]
    /\ lastLoads = <<NoLoad, NoLoad>>

\* the object store changes an enum (objectChange is emitted afterwards)
StoreChange ==
    /\ \E v \in StoreVersions : v # store /\ store' = v
    /\ UNCHANGED <<resolverVars, findVars, parseVars, confVars, pureVars, execVars, loadVars, race, llm>>

\* load() that clears rooms but forgets to clear _stateToRooms
LoadStart_keepReverse(p) ==
    /\ loadPc[p] = "idle"
    /\ \A q \in LoadProcs : loadPc[q] = "idle"
    /\ loadPre' = [loadPre EXCEPT ![p] = Snapshot]
    /\ loadSeen' = [loadSeen EXCEPT ![p] = {}]
    /\ loadFetched' = [loadFetched EXCEPT ![p] = NoFetch]
    /\ rooms' = <<>>
    /\ loadPc' = [loadPc EXCEPT ![p] = "awaitRooms"]
    /\ UNCHANGED <<store, stateToRooms, functions, stateToFunctions, findVars, parseVars,
                   confVars, pureVars, execVars, ready, lastLoads, race, llm>>

\* load() is called and runs to its first await: rooms and _stateToRooms are
\* cleared, the room fetch is issued
LoadStart(p) ==
    /\ loadPc[p] = "idle"
    /\ \A q \in LoadProcs : loadPc[q] = "idle"
    /\ loadPre' = [loadPre EXCEPT ![p] = Snapshot]
    /\ loadSeen' = [loadSeen EXCEPT ![p] = {}]
    /\ loadFetched' = [loadFetched EXCEPT ![p] = NoFetch]
    /\ rooms' = <<>>
    /\ stateToRooms' = <<>>
    /\ loadPc' = [loadPc EXCEPT ![p] = "awaitRooms"]
    /\ UNCHANGED <<store, functions, stateToFunctions, findVars, parseVars, confVars, pureVars,
                   execVars, ready, lastLoads, race, llm>>

\* the room fetch resolves: the loop fills rooms and _stateToRooms; then
\* functions and _stateToFunctions are cleared and the function fetch is issued
LoadRoomsFetched(p) ==
    /\ loadPc[p] = "awaitRooms"
    /\ LET filled == FillEnum(store.rooms, 1, Str.enum_rooms, rooms, stateToRooms)
       IN  /\ rooms' = filled.map
           /\ stateToRooms' = filled.rev
    /\ loadFetched' = [loadFetched EXCEPT ![p].rooms = [ok |-> TRUE, objs |-> store.rooms]]
    /\ functions' = <<>>
    /\ stateToFunctions' = <<>>
    /\ loadPc' = [loadPc EXCEPT ![p] = "awaitFuncs"]
    /\ UNCHANGED <<store, findVars, parseVars, confVars, pureVars, execVars, ready, loadPre, loadSeen,
                   lastLoads, race, llm>>

\* the room fetch rejects and no try/catch surrounds it: load() rejects
LoadRoomsFailed_noCatch(p) ==
    /\ loadPc[p] = "awaitRooms"
    /\ loadFetched' = [loadFetched EXCEPT ![p].rooms = FetchFailed]
    /\ loadPc' = [loadPc EXCEPT ![p] = "rejected"]
    /\ UNCHANGED <<store, resolverVars, findVars, parseVars, confVars, pureVars, execVars, ready,
                   loadPre, loadSeen, lastLoads, race, llm>>

\* the room fetch rejects: the catch block logs a warning; then the function
\* part starts as above
LoadRoomsFailed(p) ==
    /\ loadPc[p] = "awaitRooms"
    /\ loadFetched' = [loadFetched EXCEPT ![p].rooms = FetchFailed]
    /\ functions' = <<>>
    /\ stateToFunctions' = <<>>
    /\ loadPc' = [loadPc EXCEPT ![p] = "awaitFuncs"]
    /\ UNCHANGED <<store, rooms, stateToRooms, findVars, parseVars, confVars, pureVars, execVars, ready,
                   loadPre, loadSeen, lastLoads, race, llm>>


\* the function fetch resolves: the loop fills functions and _stateToFunctions
\* and load() resolves
LoadFuncsFetched(p) ==
    /\ loadPc[p] = "awaitFuncs"
    /\ LET filled  == FillEnum(store.functions, 1, Str.enum_functions, functions, stateToFunctions)
           fetched == [loadFetched[p] EXCEPT !.functions = [ok |-> TRUE, objs |-> store.functions]]
       IN  /\ functions' = filled.map
           /\ stateToFunctions' = filled.rev
           /\ loadFetched' = [loadFetched EXCEPT ![p] = fetched]
           /\ lastLoads' = <<lastLoads[2],
                             [valid |-> TRUE, fetched |-> fetched,
                              maps |-> [AllMaps EXCEPT !.functions = filled.map,
                                                       !.stateToFunctions = filled.rev]]>>
    /\ loadPc' = [loadPc EXCEPT ![p] = "resolved"]
    /\ UNCHANGED <<store, rooms, stateToRooms, findVars, parseVars, confVars, pureVars, execVars, ready,
                   loadPre, loadSeen, race, llm>>

\* the function fetch rejects: the catch block logs a warning and load() resolves
LoadFuncsFailed(p) ==
    /\ loadPc[p] = "awaitFuncs"
    /\ LET fetched == [loadFetched[p] EXCEPT !.functions = FetchFailed]
       IN  /\ loadFetched' = [loadFetched EXCEPT ![p] = fetched]
           /\ lastLoads' = <<lastLoads[2], [valid |-> TRUE, fetched |-> fetched, maps |-> AllMaps]>>
    /\ loadPc' = [loadPc EXCEPT ![p] = "resolved"]
    /\ UNCHANGED <<store, resolverVars, findVars, parseVars, confVars, pureVars, execVars, ready,
                   loadPre, loadSeen, race, llm>>

\* the caller's await of load() continues (onReady goes on to create the
\* parser and subscribe; the objectChange handler returns)
LoadReturn(p) ==
    /\ loadPc[p] \in {"resolved", "rejected"}
    /\ loadPc' = [loadPc EXCEPT ![p] = "idle"]
    /\ ready' = TRUE
    /\ UNCHANGED <<store, resolverVars, findVars, parseVars, confVars, pureVars, execVars, loadFetched,
                   loadPre, loadSeen, lastLoads, race, llm>>

\* a reader (parse, findStates, _processText) runs while load() calls are
\* suspended at an await, and sees the maps as they are
ReaderRuns ==
    /\ ready
    /\ \E p \in LoadProcs : loadPc[p] \in {"awaitRooms", "awaitFuncs"}
    /\ loadSeen' = [p \in LoadProcs |->
                       IF loadPc[p] \in {"awaitRooms", "awaitFuncs"}
                       THEN loadSeen[p] \cup {Snapshot} ELSE loadSeen[p]]
    /\ loadSeen' # loadSeen
    /\ UNCHANGED <<store, resolverVars, findVars, parseVars, confVars, pureVars, execVars, ready,
                   loadPc, loadFetched, loadPre, lastLoads, race, llm>>

\* state after construction: empty maps, onReady has not called load() yet
InitLoad ==
    /\ store \in StoreVersions
    /\ rooms = <<>> /\ functions = <<>>
    /\ stateToRooms = <<>> /\ stateToFunctions = <<>>
    /\ fsArgs = [room |-> Undefined, function |-> Undefined]
    /\ fsPc = "idle"
    /\ fsResult = <<>>
    /\ ready = FALSE
    /\ loadPc = [p \in LoadProcs |-> "idle"]
    /\ loadFetched = [p \in LoadProcs |-> NoFetch]
    /\ loadPre = [p \in LoadProcs |-> EmptySnapshot]
    /\ loadSeen = [p \in LoadProcs |-> {}]
    /\ lastLoads = <<NoLoad, NoLoad>>
    /\ ParseIdle
    /\ ConfIdle
    /\ ExecIdle
    /\ PureIdle
    /\ RaceIdle
    /\ LlmIdle

NextLoad ==
    \/ StoreChange
    \/ \E p \in LoadProcs : LoadStart(p)
    \/ \E p \in LoadProcs : LoadRoomsFetched(p)
    \/ \E p \in LoadProcs : LoadRoomsFailed(p)
    \/ \E p \in LoadProcs : LoadFuncsFetched(p)
    \/ \E p \in LoadProcs : LoadFuncsFailed(p)
    \/ \E p \in LoadProcs : LoadReturn(p)
    \/ ReaderRuns

SpecLoad == InitLoad /\ [][NextLoad]_vars

----------------------------------------------------------------------------
(* Claims about load (SpecLoad) *)

\* C2: a reader that runs while a reload is suspended at an await sees either
\* the complete rooms/functions maps from before the reload or the complete
\* maps the reload ends with, never a mixture.
C2_AtomicReload ==
    \A p \in LoadProcs :
        (ready /\ loadPc[p] = "resolved") => loadSeen[p] \subseteq {loadPre[p], Snapshot}

\* C4: when load() runs twice in a row, the second after the first has
\* completed, and the store answers both with the same data, the rooms and
\* functions maps (and the reverse lookups built with them) are the same
\* after the second call as after the first.
C4_IdempotentReload ==
    (/\ lastLoads[1].valid /\ lastLoads[2].valid
     /\ lastLoads[1].fetched = lastLoads[2].fetched)
        => lastLoads[2].maps = lastLoads[1].maps

\* two completed loads that both got the same non-empty answers
C4_Witness ==
    /\ lastLoads[1].valid /\ lastLoads[2].valid
    /\ lastLoads[1].fetched = lastLoads[2].fetched
    /\ lastLoads[2].fetched.rooms.ok /\ lastLoads[2].fetched.functions.ok
    /\ lastLoads[2].maps.rooms # <<>>
    /\ lastLoads[2].maps.stateToRooms # <<>>
    /\ lastLoads[2].maps = lastLoads[1].maps

\* map holds exactly the groups of objs other than the root, each with the
\* name and the member list of its object
LoadedFrom(map, objs, rootId) ==
    /\ {map[i].id : i \in 1..Len(map)} = {objs[j].id : j \in 1..Len(objs)} \ {rootId}
    /\ \A i \in 1..Len(map) : \E j \in 1..Len(objs) :
           /\ objs[j].id = map[i].id
           /\ map[i].name = _getName(objs[j])
           /\ map[i].members = objs[j].members

\* C5: load() never rejects; a grouping type whose fetch failed is left with
\* an empty collection and an empty reverse lookup, and the other grouping
\* type is loaded from what the store answered.
C5_LoadNeverThrows ==
    \A p \in LoadProcs :
        /\ loadPc[p] # "rejected"
        /\ loadPc[p] = "resolved" =>
              /\ IF loadFetched[p].rooms.ok
                 THEN LoadedFrom(rooms, loadFetched[p].rooms.objs, Str.enum_rooms)
                 ELSE rooms = <<>> /\ stateToRooms = <<>>
              /\ IF loadFetched[p].functions.ok
                 THEN LoadedFrom(functions, loadFetched[p].functions.objs, Str.enum_functions)
                 ELSE functions = <<>> /\ stateToFunctions = <<>>

\* a reload whose room fetch failed and whose function fetch succeeded has
\* resolved: the rooms that were loaded before are gone, the functions are there
C5_Witness ==
    \E p \in LoadProcs :
        /\ loadPc[p] = "resolved"
        /\ ~loadFetched[p].rooms.ok /\ loadFetched[p].functions.ok
        /\ loadPre[p].rooms # <<>>
        /\ rooms = <<>> /\ stateToRooms = <<>>
        /\ functions # <<>>

----------------------------------------------------------------------------
(* findStates as a function of its inputs: specification SpecFind *)

MemberLists == UNION {[1..n -> {Str.a, Str.a_b, Str.a_b_c, Str.ab}] : n \in 0..MaxMembers}


FindStore(rm, fm) ==
    [rooms     |-> <<[id |-> Str.rooms_bad, name |-> NameStr(Str.Bad), members |-> rm]>>,
     functions |-> <<[id |-> Str.functions_licht, name |-> NameStr(Str.Licht), members |-> fm]>>]

InitFind ==
    /\ \E rm, fm \in MemberLists : store = FindStore(rm, fm)
    /\ rooms = FillEnum(store.rooms, 1, Str.enum_rooms, <<>>, <<>>).map
    /\ stateToRooms = FillEnum(store.rooms, 1, Str.enum_rooms, <<>>, <<>>).rev
    /\ functions = FillEnum(store.functions, 1, Str.enum_functions, <<>>, <<>>).map
    /\ stateToFunctions = FillEnum(store.functions, 1, Str.enum_functions, <<>>, <<>>).rev
    /\ fsArgs \in [room : {Undefined, Str.Bad, Str.bad, Str.Flur}, function : {Undefined, Str.Licht, Str.Musik}]
    /\ fsPc = "ready"
    /\ fsResult = <<>>
    /\ LoadIdle
    /\ ParseIdle
    /\ ConfIdle
    /\ ExecIdle
    /\ PureIdle
    /\ RaceIdle
    /\ LlmIdle

\* one call of enumResolver.findStates(fsArgs)
FindStatesCall ==
    /\ fsPc = "ready"
    /\ fsResult' = findStates(rooms, functions, fsArgs.room, fsArgs.function)
    /\ fsPc' = "returned"
    /\ UNCHANGED <<store, resolverVars, fsArgs, loadVars, parseVars, confVars, pureVars, execVars, race, llm>>

NextFind == FindStatesCall

SpecFind == InitFind /\ [][NextFind]_vars

----------------------------------------------------------------------------
(* Claims about findStates (SpecFind) *)

FsRoomResolved == Truthy(fsArgs.room) /\ ~IsNull(_findEnum(rooms, fsArgs.room))
FsFuncResolved == Truthy(fsArgs.function) /\ ~IsNull(_findEnum(functions, fsArgs.function))
FsRoomSet == Range(_findEnum(rooms, fsArgs.room).members)
FsFuncSet == Range(_findEnum(functions, fsArgs.function).members)

\* (R \cap F) plus the members of F below a member of R plus the members of R
\* below a member of F
HierarchicalIntersection(R, F) ==
    (R \cap F) \cup {f \in F : \E r \in R : IsChildOf(f, r)}
               \cup {r \in R : \E f \in F : IsChildOf(r, f)}

\* C6: with both names resolved, findStates returns exactly the hierarchical
\* intersection of the room members R and the function members F: R \cap F,
\* every member of F that is a strict dot-path child of a member of R, and
\* every member of R that is a strict dot-path child of a member of F, also
\* when the parent is itself a member of both sets.
C6_HierarchicalIntersection ==
    (fsPc = "returned" /\ FsRoomResolved /\ FsFuncResolved)
        => Range(fsResult) = HierarchicalIntersection(FsRoomSet, FsFuncSet)

\* C7: the list returned by findStates never holds the same state id twice,
\* whatever the member lists are (duplicates, room members nested in one
\* another).
C7_NoDuplicateStateIds ==
    fsPc = "returned"
        => \A i, j \in 1..Len(fsResult) : i # j => fsResult[i] # fsResult[j]

\* C8: findStates returns the empty list when a requested name has no fuzzy
\* match, also when the other requested name resolves, and when neither name
\* is given.
C8_UnresolvedNameGivesEmpty ==
    (/\ fsPc = "returned"
     /\ \/ Truthy(fsArgs.room) /\ ~FsRoomResolved
        \/ Truthy(fsArgs.function) /\ ~FsFuncResolved
        \/ ~Truthy(fsArgs.room) /\ ~Truthy(fsArgs.function))
        => fsResult = <<>>

\* an unresolvable room name asked together with a function name that resolves
\* to a non-empty group, and the call has returned the empty list
C8_Witness ==
    /\ fsPc = "returned"
    /\ fsArgs.room = Str.Flur
    /\ FsFuncResolved /\ FsFuncSet # {}
    /\ fsResult = <<>>

----------------------------------------------------------------------------
(* IntentParser._calcConfidence: double arithmetic *)

One == <<20, 0>>            \* 1.0
DirectConfidence == <<17, 0>>   \* 0.85, the literal of the direct-device path

\* x + m/20 in IEEE-754 double arithmetic, for the addends 0.2 (m = 4),
\* 0.1 (m = 2) and 0.05 (m = 1) and the operands the scoring reaches
FAdd(x, m) ==
    CASE x = <<6, 0>> /\ m = 1 -> <<7, 0>>      \* 0.3 + 0.05 = 0.35
      [] x = <<6, 0>> /\ m = 2 -> <<8, 0>>      \* 0.3 + 0.1 = 0.4
      [] x = <<6, 0>> /\ m = 4 -> <<10, 0>>     \* 0.3 + 0.2 = 0.5
      [] x = <<8, 0>> /\ m = 1 -> <<9, 0>>      \* 0.4 + 0.05 = 0.45
      [] x = <<8, 0>> /\ m = 2 -> <<10, 0>>     \* 0.4 + 0.1 = 0.5
      [] x = <<8, 0>> /\ m = 4 -> <<12, 1>>     \* 0.4 + 0.2 = 0.6000000000000001
      [] x = <<10, 0>> /\ m = 1 -> <<11, 0>>    \* 0.5 + 0.05 = 0.55
      [] x = <<10, 0>> /\ m = 2 -> <<12, 0>>    \* 0.5 + 0.1 = 0.6
      [] x = <<10, 0>> /\ m = 4 -> <<14, 0>>    \* 0.5 + 0.2 = 0.7
      [] x = <<12, 0>> /\ m = 1 -> <<13, 0>>    \* 0.6 + 0.05 = 0.65
      [] x = <<12, 0>> /\ m = 2 -> <<14, 0>>    \* 0.6 + 0.1 = 0.7
      [] x = <<12, 0>> /\ m = 4 -> <<16, 0>>    \* 0.6 + 0.2 = 0.8
      [] x = <<12, 1>> /\ m = 1 -> <<13, 1>>    \* 0.6000000000000001 + 0.05 = 0.6500000000000001
      [] x = <<12, 1>> /\ m = 2 -> <<14, 1>>    \* 0.6000000000000001 + 0.1 = 0.7000000000000001
      [] x = <<14, 0>> /\ m = 1 -> <<15, 0>>    \* 0.7 + 0.05 = 0.75
      [] x = <<14, 0>> /\ m = 2 -> <<16, -1>>   \* 0.7 + 0.1 = 0.7999999999999999
      [] x = <<14, 0>> /\ m = 4 -> <<18, -1>>   \* 0.7 + 0.2 = 0.8999999999999999
      [] x = <<16, -1>> /\ m = 1 -> <<17, 0>>   \* 0.7999999999999999 + 0.05 = 0.85
      [] x = <<16, -1>> /\ m = 2 -> <<18, -1>>  \* 0.7999999999999999 + 0.1 = 0.8999999999999999
      [] x = <<16, -1>> /\ m = 4 -> <<20, 0>>   \* 0.7999999999999999 + 0.2 = 1.0
      [] x = <<16, 0>> /\ m = 1 -> <<17, 1>>    \* 0.8 + 0.05 = 0.8500000000000001
      [] x = <<16, 0>> /\ m = 2 -> <<18, 0>>    \* 0.8 + 0.1 = 0.9
      [] x = <<17, 0>> /\ m = 1 -> <<18, 0>>    \* 0.85 + 0.05 = 0.9
      [] x = <<18, -1>> /\ m = 1 -> <<19, 0>>   \* 0.8999999999999999 + 0.05 = 0.95
      [] x = <<18, -1>> /\ m = 2 -> <<20, -1>>  \* 0.8999999999999999 + 0.1 = 0.9999999999999999
      [] x = <<18, -1>> /\ m = 4 -> <<22, -1>>  \* 0.8999999999999999 + 0.2 = 1.0999999999999999
      [] x = <<20, -1>> /\ m = 1 -> <<21, -1>>  \* 0.9999999999999999 + 0.05 = 1.0499999999999998
      [] x = <<20, -1>> /\ m = 2 -> <<22, -1>>  \* 0.9999999999999999 + 0.1 = 1.0999999999999999
      [] x = <<20, -1>> /\ m = 4 -> <<24, 0>>   \* 0.9999999999999999 + 0.2 = 1.2
      [] x = <<20, 0>> /\ m = 1 -> <<21, 0>>    \* 1.0 + 0.05 = 1.05
      [] x = <<20, 0>> /\ m = 2 -> <<22, 0>>    \* 1.0 + 0.1 = 1.1
      [] x = <<20, 0>> /\ m = 4 -> <<24, 0>>    \* 1.0 + 0.2 = 1.2
      [] x = <<22, -1>> /\ m = 1 -> <<23, 0>>   \* 1.0999999999999999 + 0.05 = 1.15
      [] x = <<22, -1>> /\ m = 2 -> <<24, 0>>   \* 1.0999999999999999 + 0.1 = 1.2
      [] x = <<24, 0>> /\ m = 2 -> <<26, 0>>    \* 1.2 + 0.1 = 1.3

\* x < y on these doubles
FLess(x, y) == x[1] < y[1] \/ (x[1] = y[1] /\ x[2] < y[2])

\* Math.min
FMin(x, y) == IF FLess(y, x) THEN y ELSE x

\* _calcConfidence without the bonus for room and function both matched
_calcConfidence_noBothBonus(room, func, action, valueInfo) ==
    LET s0 == <<6, 0>>
        s1 == IF room THEN FAdd(s0, 4) ELSE s0
        s2 == IF func THEN FAdd(s1, 4) ELSE s1
        s3 == IF action # NoAction THEN FAdd(s2, 4) ELSE s2
        s4 == IF valueInfo /\ action = "set_value" THEN FAdd(s3, 2) ELSE s3
    IN  FMin(s4, One)

\* _calcConfidence without the 0.2 for a detected action
_calcConfidence_noActionBonus(room, func, action, valueInfo) ==
    LET s0 == <<6, 0>>
        s1 == IF room THEN FAdd(s0, 4) ELSE s0
        s2 == IF func THEN FAdd(s1, 4) ELSE s1
        s4 == IF valueInfo /\ action = "set_value" THEN FAdd(s2, 2) ELSE s2
        s5 == IF room /\ func THEN FAdd(s4, 2) ELSE s4
    IN  FMin(s5, One)

\* IntentParser._calcConfidence(room, func, action, valueInfo): room, func
\* and valueInfo by their truthiness, action by its type
_calcConfidence(room, func, action, valueInfo) ==
    LET s0 == <<6, 0>>
        s1 == IF room THEN FAdd(s0, 4) ELSE s0
        s2 == IF func THEN FAdd(s1, 4) ELSE s1
        s3 == IF action # NoAction THEN FAdd(s2, 4) ELSE s2
        s4 == IF valueInfo /\ action = "set_value" THEN FAdd(s3, 2) ELSE s3
        s5 == IF room /\ func THEN FAdd(s4, 2) ELSE s4
    IN  FMin(s5, One)

\* the confidence field without the 0.05 for a narrowing device name
IntentConfidence_noBump(confidence, deviceName) ==
    FMin(confidence, One)

\* the confidence field of the intent of the room/function path:
\* Math.min(deviceName ? confidence + 0.05 : confidence, 1.0)
IntentConfidence(confidence, deviceName) ==
    FMin(IF deviceName THEN FAdd(confidence, 1) ELSE confidence, One)

\* the scoring of parse() for given truth values of its locals
ConfidenceOf(args) ==
    IntentConfidence(_calcConfidence(args.room, args.func, args.action, args.valueInfo),
                     args.deviceName)

----------------------------------------------------------------------------
(* The scoring as a function of its inputs: specification SpecConf *)

InitConf ==
    /\ store = StoreA
    /\ rooms = <<>> /\ functions = <<>>
    /\ stateToRooms = <<>> /\ stateToFunctions = <<>>
    /\ fsArgs = [room |-> Undefined, function |-> Undefined]
    /\ fsPc = "idle"
    /\ fsResult = <<>>
    /\ LoadIdle
    /\ ParseIdle
    /\ ccArgs \in [room : BOOLEAN, func : BOOLEAN, action : (WriteActions \cup {"query"}) \cup {NoAction}, valueInfo : BOOLEAN, deviceName : BOOLEAN]
    /\ ccPc = "ready"
    /\ ccResult = <<0, 0>>
    /\ ExecIdle
    /\ PureIdle
    /\ RaceIdle
    /\ LlmIdle

\* lines 114 and 127 of parse() for the inputs ccArgs
ConfidenceCall ==
    /\ ccPc = "ready"
    /\ ccResult' = ConfidenceOf(ccArgs)
    /\ ccPc' = "returned"
    /\ UNCHANGED <<store, resolverVars, findVars, loadVars, parseVars, ccArgs, execVars, pureVars, race, llm>>

NextConf == ConfidenceCall

SpecConf == InitConf /\ [][NextConf]_vars

----------------------------------------------------------------------------
(* Claims about the scoring (SpecConf) *)

\* the same inputs without the function match and without narrowing
CcWithoutFunc == ConfidenceOf([ccArgs EXCEPT !.func = FALSE, !.deviceName = FALSE])
\* the same inputs without narrowing
CcUnnarrowed == ConfidenceOf([ccArgs EXCEPT !.deviceName = FALSE])

\* C10: adding a function match to an intent that has a room and an action
\* raises the confidence by 0.2 (capped at 1.0), and device-name narrowing
\* adds exactly 0.05 to the confidence.
C10_ConfidenceMonotonicity ==
    (ccPc = "returned" /\ ccArgs.room /\ ccArgs.action # NoAction) =>
        /\ (ccArgs.func /\ ~ccArgs.deviceName) =>
              /\ ccResult = FMin(FAdd(CcWithoutFunc, 4), One)
              /\ FLess(CcWithoutFunc, ccResult)
        /\ ccArgs.deviceName => ccResult = FAdd(CcUnnarrowed, 1)

\* C10 (amended): adding a function match to an intent that has a room and an
\* action strictly raises the confidence, by 0.2 plus the 0.1 bonus for room
\* and function both matched, capped at 1.0; device-name narrowing adds 0.05
\* capped at 1.0, which is exactly 0.05 more for an intent without a function.
C10_MonotonicityWithBonus ==
    (ccPc = "returned" /\ ccArgs.room /\ ccArgs.action # NoAction) =>
        /\ (ccArgs.func /\ ~ccArgs.deviceName) =>
              /\ ccResult = FMin(FAdd(FAdd(CcWithoutFunc, 4), 2), One)
              /\ FLess(CcWithoutFunc, ccResult)
        /\ ccArgs.deviceName =>
              /\ ccResult = FMin(FAdd(CcUnnarrowed, 1), One)
              /\ ~ccArgs.func => ccResult = FAdd(CcUnnarrowed, 1)

\* room, function and set_on with a narrowing device name: 0.9999999999999999
\* without the narrowing, 1.0 with it
C10_Witness ==
    /\ ccPc = "returned"
    /\ ccArgs = [room |-> TRUE, func |-> TRUE, action |-> "set_on",
                 valueInfo |-> FALSE, deviceName |-> TRUE]
    /\ CcUnnarrowed = <<20, -1>>
    /\ ccResult = One

----------------------------------------------------------------------------
(* IntentParser: matching rooms and functions in the text *)

\* the two steps shared by _matchRoom and _matchFunction: the first entry
\* whose lowercased name or id suffix occurs in the text; otherwise, for the
\* first alias group the text hits that also has an entry, that entry
MatchEnum(enumMap, groups, lower) ==
    LET idx == 1..Len(enumMap)
        lname(i)  == ToLowerCase(enumMap[i].name)
        suffix(i) == ToLowerCase(LastSegment(enumMap[i].id))
        direct == {i \in idx : Includes(lower, lname(i)) \/ Includes(lower, suffix(i))}
        userHit(g) == \E k \in 1..Len(groups[g]) : Includes(lower, groups[g][k])
        entryHit(g, i) == \E k \in 1..Len(groups[g]) :
                              Includes(lname(i), groups[g][k]) \/ Includes(suffix(i), groups[g][k])
        gs == {g \in 1..Len(groups) : userHit(g) /\ \E i \in idx : entryHit(g, i)}
        pick(i) == [name |-> enumMap[i].name, id |-> enumMap[i].id]
    IN  IF direct # {} THEN pick(Min(direct))
        ELSE IF gs # {} THEN pick(Min({i \in idx : entryHit(Min(gs), i)}))
        ELSE NoMatch

\* IntentParser._matchRoom(lower) on the rooms map
_matchRoom(roomMap, lower) ==
    LET roomAliases ==
            <<
            <<
            <<"w","o","h","n","z","i","m","m","e","r">>, <<"w","o","h","n","r","a","u","m">>,
            <<"s","t","u","b","e">>, <<"l","i","v","i","n","g","_","r","o","o","m">>,
            <<"l","i","v","i","n","g"," ","r","o","o","m">>, <<"l","i","v","i","n","g","r","o","o","m">> >>,
            <<
            <<"s","c","h","l","a","f","z","i","m","m","e","r">>, <<"b","e","d","r","o","o","m">>,
            <<"s","c","h","l","a","f","r","a","u","m">> >>,
            <<
            <<"b","a","d","e","z","i","m","m","e","r">>, <<"b","a","d">>, <<"b","a","t","h","r","o","o","m">>,
            <<"b","a","t","h">> >>,
            <<
            <<"k","ue","c","h","e">>, <<"k","u","e","c","h","e">>, <<"k","i","t","c","h","e","n">> >>,
            <<
            <<"b","ue","r","o">>, <<"b","u","e","r","o">>, <<"a","r","b","e","i","t","s","z","i","m","m","e","r">>,
            <<"o","f","f","i","c","e">> >>,
            <<
            <<"k","i","n","d","e","r","z","i","m","m","e","r">>, <<"c","h","i","l","d","r","e","n">>,
            <<"k","i","d","s">> >>,
            <<
            <<"f","l","u","r">>, <<"d","i","e","l","e">>, <<"g","a","n","g">>, <<"c","o","r","r","i","d","o","r">>,
            <<"h","a","l","l","w","a","y">> >>,
            <<
            <<"k","e","l","l","e","r">>, <<"b","a","s","e","m","e","n","t">> >>,
            <<
            <<"d","a","c","h","b","o","d","e","n">>, <<"d","a","c","h","g","e","s","c","h","o","s","s">>,
            <<"a","t","t","i","c">> >>,
            <<
            <<"g","a","r","t","e","n">>, <<"g","a","r","d","e","n">>, <<"t","e","r","r","a","s","s","e">>,
            <<"b","a","l","k","o","n">> >>,
            <<
            <<"g","a","r","a","g","e">>, <<"c","a","r","p","o","r","t">> >>,
            <<
            <<"e","s","s","z","i","m","m","e","r">>, <<"e","s","s","b","e","r","e","i","c","h">>,
            <<"d","i","n","i","n","g">> >>,
            <<
            <<"g","ae","s","t","e","z","i","m","m","e","r">>, <<"g","ae","s","t","e">>, <<"g","u","e","s","t">> >> >>
    IN  MatchEnum(roomMap, roomAliases, lower)

\* IntentParser._matchFunction(lower) on the functions map
_matchFunction(funcMap, lower) ==
    LET aliasGroups ==
            <<
            <<
            <<"l","i","c","h","t">>, <<"l","a","m","p","e">>, <<"l","a","m","p","e","n">>,
            <<"b","e","l","e","u","c","h","t","u","n","g">>, <<"l","e","u","c","h","t","e">>,
            <<"l","e","u","c","h","t","e","n">>, <<"l","i","g","h","t","i","n","g">>, <<"l","i","g","h","t">> >>,
            <<
            <<"h","e","i","z","u","n","g">>, <<"t","h","e","r","m","o","s","t","a","t">>,
            <<"t","e","m","p","e","r","a","t","u","r">>, <<"h","e","i","z","k","oe","r","p","e","r">>,
            <<"h","e","i","z","e","n">>, <<"h","e","a","t","i","n","g">> >>,
            <<
            <<"r","o","l","l","l","a","d","e","n">>, <<"r","o","l","l","a","d","e","n">>, <<"r","o","l","l","o">>,
            <<"j","a","l","o","u","s","i","e">>, <<"j","a","l","o","u","s","i","e","n">>,
            <<"b","e","s","c","h","a","t","t","u","n","g">>, <<"s","h","u","t","t","e","r">>,
            <<"b","l","i","n","d">>, <<"b","l","i","n","d","s">> >>,
            <<
            <<"s","t","e","c","k","d","o","s","e">>, <<"s","t","e","c","k","e","r">>, <<"d","o","s","e">>,
            <<"s","o","c","k","e","t">>, <<"o","u","t","l","e","t">> >>,
            <<
            <<"f","e","n","s","t","e","r">>, <<"f","e","n","s","t","e","r","k","o","n","t","a","k","t">>,
            <<"f","e","n","s","t","e","r","s","e","n","s","o","r">>, <<"w","i","n","d","o","w">> >>,
            <<
            <<"t","ue","r">>, <<"t","ue","r","k","o","n","t","a","k","t">>,
            <<"t","ue","r","s","e","n","s","o","r">>, <<"d","o","o","r">> >>,
            <<
            <<"v","e","n","t","i","l","a","t","o","r">>, <<"l","ue","f","t","e","r">>, <<"f","a","n">> >>,
            <<
            <<"m","u","s","i","k">>, <<"a","u","d","i","o">>, <<"l","a","u","t","s","p","r","e","c","h","e","r">>,
            <<"s","p","e","a","k","e","r">>, <<"m","e","d","i","a">> >> >>
    IN  MatchEnum(funcMap, aliasGroups, lower)

----------------------------------------------------------------------------
(* IntentParser: detecting the action *)

IsDigit(c) == c \in {"0","1","2","3","4","5","6","7","8","9"}

\* String.prototype.split(/[seps]+/): the pieces between runs of separator
\* characters
RECURSIVE SplitRuns(_, _, _, _, _)
SplitRuns(s, seps, i, cur, acc) ==
    IF i > Len(s) THEN Append(acc, cur)
    ELSE IF s[i] \in seps
         THEN (IF i > 1 /\ s[i - 1] \in seps
               THEN SplitRuns(s, seps, i + 1, cur, acc)
               ELSE SplitRuns(s, seps, i + 1, <<>>, Append(acc, cur)))
    ELSE SplitRuns(s, seps, i + 1, Append(cur, s[i]), acc)

\* row i of the matrix of _levenshtein, from the row above it
RECURSIVE LevCells(_, _, _, _, _)
LevCells(a, b, i, prev, cur) ==
    IF Len(cur) > Len(a) THEN cur
    ELSE LET j    == Len(cur)
             cost == IF a[j] = b[i] THEN 0 ELSE 1
         IN  LevCells(a, b, i, prev,
                      Append(cur, Min({prev[j + 1] + 1, cur[j] + 1, prev[j] + cost})))

RECURSIVE LevRow(_, _, _)
LevRow(a, b, i) ==
    IF i = 0 THEN [j \in 1..(Len(a) + 1) |-> j - 1]
    ELSE LevCells(a, b, i, LevRow(a, b, i - 1), <<i>>)

\* IntentParser._levenshtein(a, b)
_levenshtein(a, b) ==
    IF Len(a) = 0 THEN Len(b)
    ELSE IF Len(b) = 0 THEN Len(a)
    ELSE LevRow(a, b, Len(b))[Len(a) + 1]

\* IntentParser._hasSwitchVerb(lower)
_hasSwitchVerb(lower) ==
    \/ Includes(lower, <<"s","c","h","a","l","t">>)
    \/ Includes(lower, <<"m","a","c","h">>)
    \/ LET words == SplitRuns(lower, SpaceChars, 1, <<>>, <<>>)
           switchTargets == <<
                            <<"s","c","h","a","l","t","e">>, <<"s","c","h","a","l","t","e","n">>, <<"s","c","h","a","l","t">> >>
       IN  \E w \in 1..Len(words) : \E t \in 1..Len(switchTargets) :
               _levenshtein(words[w], switchTargets[t]) <= 2

valueVerbs ==
   <<
      <<"a","u","f">>, <<"s","e","t","z","e">>, <<"s","t","e","l","l","e">>, <<"s","t","e","l","l">> >>

\* IntentParser._hasValuePattern(lower):
\* /(?:auf|setze|stelle|stell)\s.*?\d/ or /\d+\s*(?:prozent|grad|%|°)/
_hasValuePattern(lower) ==
    LET valueUnits == <<<<"p","r","o","z","e","n","t">>, <<"g","r","a","d">>, <<"%">>, <<"deg">>>>
    IN
    \/ \E i \in 1..Len(lower) : \E v \in 1..Len(valueVerbs) :
           /\ StartsWithAt(lower, valueVerbs[v], i)
           /\ LET p == i + Len(valueVerbs[v])
              IN  /\ p <= Len(lower)
                  /\ IsSpace(lower[p])
                  /\ \E q \in (p + 1)..Len(lower) :
                         /\ IsDigit(lower[q])
                         /\ \A k \in (p + 1)..(q - 1) : lower[k] # "\n"
    \/ \E d \in 1..Len(lower) :
           /\ IsDigit(lower[d])
           /\ \E q \in (d + 1)..Len(lower) : \E u \in 1..Len(valueUnits) :
                  /\ \A k \in (d + 1)..(q - 1) : IsSpace(lower[k])
                  /\ StartsWithAt(lower, valueUnits[u], q)

\* _detectAction looking for the decrease words before the increase words
_detectAction_decreaseFirst(lower) ==
    LET increaseWords ==
            <<
            <<"h","e","l","l","e","r">>, <<"w","ae","r","m","e","r">>, <<"h","oe","h","e","r">>,
            <<"m","e","h","r">>, <<"l","a","u","t","e","r">>, <<"r","a","u","f">>,
            <<"a","u","f","d","r","e","h","e","n">>, <<"h","o","c","h","d","r","e","h","e","n">>,
            <<"e","r","h","oe","h","e">>, <<"e","r","h","oe","h","e","n">> >>
        decreaseWords ==
            <<
            <<"d","u","n","k","l","e","r">>, <<"k","ae","l","t","e","r">>, <<"n","i","e","d","r","i","g","e","r">>,
            <<"w","e","n","i","g","e","r">>, <<"l","e","i","s","e","r">>, <<"r","u","n","t","e","r">>,
            <<"z","u","d","r","e","h","e","n">>, <<"h","e","r","u","n","t","e","r","d","r","e","h","e","n">>,
            <<"r","e","d","u","z","i","e","r","e">>, <<"r","e","d","u","z","i","e","r","e","n">>,
            <<"d","i","m","m","e">>, <<"d","i","m","m","e","n">> >>
        onWords ==
            <<
            <<"e","i","n","s","c","h","a","l","t","e","n">>, <<"a","n","s","c","h","a","l","t","e","n">>,
            <<"a","n","m","a","c","h","e","n">>, <<"a","u","f","m","a","c","h","e","n">>,
            <<"a","k","t","i","v","i","e","r","e","n">>, <<"s","t","a","r","t","e","n">>, <<"oe","f","f","n","e">>,
            <<"oe","f","f","n","e","n">> >>
        onEndWords ==
            <<
            <<" ","e","i","n">>, <<" ","a","n">> >>
        offWords ==
            <<
            <<"a","u","s","s","c","h","a","l","t","e","n">>, <<"a","b","s","c","h","a","l","t","e","n">>,
            <<"a","u","s","m","a","c","h","e","n">>, <<"z","u","m","a","c","h","e","n">>,
            <<"d","e","a","k","t","i","v","i","e","r","e","n">>, <<"s","t","o","p","p","e","n">>,
            <<"s","c","h","l","i","e","ss","e">>, <<"s","c","h","l","i","e","ss","e","n">> >>
        offEndWords ==
            <<
            <<" ","a","u","s">> >>
        queryPatterns ==
            <<
            <<"w","i","e"," ","w","a","r","m">>, <<"w","i","e"," ","k","a","l","t">>,
            <<"w","i","e"," ","h","e","l","l">>, <<"w","i","e"," ","d","u","n","k","e","l">>,
            <<"w","i","e"," ","h","o","c","h">>, <<"w","i","e"," ","v","i","e","l">>,
            <<"w","i","e","v","i","e","l">>,
            <<"w","e","l","c","h","e"," ","t","e","m","p","e","r","a","t","u","r">>,
            <<"w","a","s"," ","i","s","t">>, <<"w","i","e"," ","i","s","t">>, <<"z","e","i","g">>,
            <<"s","t","a","t","u","s">>, <<"i","s","t"," ","d","a","s">>, <<"i","s","t"," ","d","i","e">>,
            <<"i","s","t"," ","d","e","r">>, <<"s","i","n","d"," ","d","i","e">> >>
        \* some word of the list occurs in the text
        AnyIncluded(s, words) == \E k \in 1..Len(words) : Includes(s, words[k])
        \* the test of the onEndWords / offEndWords loops: the text ends with
        \* the trimmed word, or holds the word followed by a space, a full
        \* stop or an exclamation mark
        EndWordHit(s, words) ==
            \E k \in 1..Len(words) :
                \/ EndsWith(s, Trim(words[k]))
                \/ Includes(s, words[k] \o <<" ">>)
                \/ Includes(s, words[k] \o <<".">>)
                \/ Includes(s, words[k] \o <<"!">>)
    IN
    IF _hasValuePattern(lower) THEN "set_value"
    ELSE IF AnyIncluded(lower, decreaseWords) THEN "decrease"
    ELSE IF AnyIncluded(lower, increaseWords) THEN "increase"
    ELSE IF AnyIncluded(lower, onWords) THEN "set_on"
    ELSE IF EndWordHit(lower, onEndWords) THEN "set_on"
    ELSE IF Includes(lower, <<"m","a","c","h">>) /\ (EndsWith(lower, <<"a","n">>) \/ EndsWith(lower, <<"e","i","n">>))
         THEN "set_on"
    ELSE IF _hasSwitchVerb(lower) /\ (Includes(lower, <<" ","e","i","n">>) \/ Includes(lower, <<" ","a","n">>))
         THEN "set_on"
    ELSE IF AnyIncluded(lower, offWords) THEN "set_off"
    ELSE IF EndWordHit(lower, offEndWords) THEN "set_off"
    ELSE IF _hasSwitchVerb(lower) /\ Includes(lower, <<" ","a","u","s">>) THEN "set_off"
    ELSE IF AnyIncluded(lower, queryPatterns) THEN "query"
    ELSE IF Includes(lower, <<"?">>) THEN "query"
    ELSE NoAction

\* IntentParser._detectAction(lower): the type of the first rule that
\* matches, or null
_detectAction(lower) ==
    LET increaseWords ==
            <<
            <<"h","e","l","l","e","r">>, <<"w","ae","r","m","e","r">>, <<"h","oe","h","e","r">>,
            <<"m","e","h","r">>, <<"l","a","u","t","e","r">>, <<"r","a","u","f">>,
            <<"a","u","f","d","r","e","h","e","n">>, <<"h","o","c","h","d","r","e","h","e","n">>,
            <<"e","r","h","oe","h","e">>, <<"e","r","h","oe","h","e","n">> >>
        decreaseWords ==
            <<
            <<"d","u","n","k","l","e","r">>, <<"k","ae","l","t","e","r">>, <<"n","i","e","d","r","i","g","e","r">>,
            <<"w","e","n","i","g","e","r">>, <<"l","e","i","s","e","r">>, <<"r","u","n","t","e","r">>,
            <<"z","u","d","r","e","h","e","n">>, <<"h","e","r","u","n","t","e","r","d","r","e","h","e","n">>,
            <<"r","e","d","u","z","i","e","r","e">>, <<"r","e","d","u","z","i","e","r","e","n">>,
            <<"d","i","m","m","e">>, <<"d","i","m","m","e","n">> >>
        onWords ==
            <<
            <<"e","i","n","s","c","h","a","l","t","e","n">>, <<"a","n","s","c","h","a","l","t","e","n">>,
            <<"a","n","m","a","c","h","e","n">>, <<"a","u","f","m","a","c","h","e","n">>,
            <<"a","k","t","i","v","i","e","r","e","n">>, <<"s","t","a","r","t","e","n">>, <<"oe","f","f","n","e">>,
            <<"oe","f","f","n","e","n">> >>
        onEndWords ==
            <<
            <<" ","e","i","n">>, <<" ","a","n">> >>
        offWords ==
            <<
            <<"a","u","s","s","c","h","a","l","t","e","n">>, <<"a","b","s","c","h","a","l","t","e","n">>,
            <<"a","u","s","m","a","c","h","e","n">>, <<"z","u","m","a","c","h","e","n">>,
            <<"d","e","a","k","t","i","v","i","e","r","e","n">>, <<"s","t","o","p","p","e","n">>,
            <<"s","c","h","l","i","e","ss","e">>, <<"s","c","h","l","i","e","ss","e","n">> >>
        offEndWords ==
            <<
            <<" ","a","u","s">> >>
        queryPatterns ==
            <<
            <<"w","i","e"," ","w","a","r","m">>, <<"w","i","e"," ","k","a","l","t">>,
            <<"w","i","e"," ","h","e","l","l">>, <<"w","i","e"," ","d","u","n","k","e","l">>,
            <<"w","i","e"," ","h","o","c","h">>, <<"w","i","e"," ","v","i","e","l">>,
            <<"w","i","e","v","i","e","l">>,
            <<"w","e","l","c","h","e"," ","t","e","m","p","e","r","a","t","u","r">>,
            <<"w","a","s"," ","i","s","t">>, <<"w","i","e"," ","i","s","t">>, <<"z","e","i","g">>,
            <<"s","t","a","t","u","s">>, <<"i","s","t"," ","d","a","s">>, <<"i","s","t"," ","d","i","e">>,
            <<"i","s","t"," ","d","e","r">>, <<"s","i","n","d"," ","d","i","e">> >>
        \* some word of the list occurs in the text
        AnyIncluded(s, words) == \E k \in 1..Len(words) : Includes(s, words[k])
        \* the test of the onEndWords / offEndWords loops: the text ends with
        \* the trimmed word, or holds the word followed by a space, a full
        \* stop or an exclamation mark
        EndWordHit(s, words) ==
            \E k \in 1..Len(words) :
                \/ EndsWith(s, Trim(words[k]))
                \/ Includes(s, words[k] \o <<" ">>)
                \/ Includes(s, words[k] \o <<".">>)
                \/ Includes(s, words[k] \o <<"!">>)
    IN
    IF _hasValuePattern(lower) THEN "set_value"
    ELSE IF AnyIncluded(lower, increaseWords) THEN "increase"
    ELSE IF AnyIncluded(lower, decreaseWords) THEN "decrease"
    ELSE IF AnyIncluded(lower, onWords) THEN "set_on"
    ELSE IF EndWordHit(lower, onEndWords) THEN "set_on"
    ELSE IF Includes(lower, <<"m","a","c","h">>) /\ (EndsWith(lower, <<"a","n">>) \/ EndsWith(lower, <<"e","i","n">>))
         THEN "set_on"
    ELSE IF _hasSwitchVerb(lower) /\ (Includes(lower, <<" ","e","i","n">>) \/ Includes(lower, <<" ","a","n">>))
         THEN "set_on"
    ELSE IF AnyIncluded(lower, offWords) THEN "set_off"
    ELSE IF EndWordHit(lower, offEndWords) THEN "set_off"
    ELSE IF _hasSwitchVerb(lower) /\ Includes(lower, <<" ","a","u","s">>) THEN "set_off"
    ELSE IF AnyIncluded(lower, queryPatterns) THEN "query"
    ELSE IF Includes(lower, <<"?">>) THEN "query"
    ELSE NoAction

----------------------------------------------------------------------------
(* IntentParser: extracting the value *)

\* \w of a regular expression without the u flag
IsWordChar(c) ==
    \/ IsDigit(c)
    \/ c = "_"
    \/ c \in {"a","b","c","d","e","f","g","h","i","j","k","l","m","n","o","p","q","r","s","t",
              "u","v","w","x","y","z"}
    \/ c \in {"A","B","C","D","E","F","G","H","I","J","K","L","M","N","O","P","Q","R","S","T",
              "U","V","W","X","Y","Z"}

RECURSIVE DigitsValue(_)
DigitsValue(ds) ==
    IF ds = <<>> THEN 0
    ELSE LET digit == CHOOSE n \in 0..9 :
                          <<"0","1","2","3","4","5","6","7","8","9">>[n + 1] = ds[Len(ds)]
         IN  10 * DigitsValue(SubSeq(ds, 1, Len(ds) - 1)) + digit

RECURSIVE Pow10(_)
Pow10(d) == IF d = 0 THEN 1 ELSE 10 * Pow10(d - 1)

\* the last index of the run of characters from i on that satisfy digit test
DigitRunEnd(s, i) ==
    Min({k \in i..Len(s) : k = Len(s) \/ ~IsDigit(s[k + 1])})

\* the first index from i on that is not whitespace, Len(s) + 1 if there is none
SkipSpace(s, i) ==
    Min({k \in i..(Len(s) + 1) : k = Len(s) + 1 \/ ~IsSpace(s[k])})

\* [.,]\d+ can match right after index a
HasFraction(s, a) ==
    a + 2 <= Len(s) /\ s[a + 1] \in {".", ","} /\ IsDigit(s[a + 2])

\* parseFloat(m.replace(',', '.')) of integer digits and fraction digits, as
\* <<mantissa, decimals>> without trailing zero decimals
RECURSIVE Number(_, _)
Number(int, frac) ==
    IF frac # <<>> /\ frac[Len(frac)] = "0"
    THEN Number(int, SubSeq(frac, 1, Len(frac) - 1))
    ELSE <<DigitsValue(int \o frac), Len(frac)>>

\* \d+(?:[.,]\d+)? matched greedily at index i: its value and its last index
NumberAt(s, i) ==
    LET a == DigitRunEnd(s, i)
    IN  IF HasFraction(s, a)
        THEN LET b == DigitRunEnd(s, a + 2)
             IN  [value |-> Number(SubSeq(s, i, a), SubSeq(s, a + 2, b)), end |-> b]
        ELSE [value |-> Number(SubSeq(s, i, a), <<>>), end |-> a]

\* (?:\w+\s+)*?(\d+...) from index w, the start of a run of non-space
\* characters: the index where the number starts, 0 if there is no match
RECURSIVE PlainNumberStart(_, _)
PlainNumberStart(s, w) ==
    IF w > Len(s) THEN 0
    ELSE IF IsDigit(s[w]) THEN w
    ELSE IF ~IsWordChar(s[w]) THEN 0
    ELSE LET x == Min({k \in w..Len(s) : k = Len(s) \/ ~IsWordChar(s[k + 1])})
         IN  IF x + 1 <= Len(s) /\ IsSpace(s[x + 1])
             THEN PlainNumberStart(s, SkipSpace(s, x + 1))
             ELSE 0

\* /(?:auf|setze|stelle|stell)\s+(?:\w+\s+)*?(\d+(?:[.,]\d+)?)/ with the verb
\* at index i: the index where the number starts, 0 if there is no match
PlainMatchAt(s, i) ==
    LET starts == {IF /\ StartsWithAt(s, valueVerbs[v], i)
                      /\ i + Len(valueVerbs[v]) <= Len(s)
                      /\ IsSpace(s[i + Len(valueVerbs[v])])
                   THEN PlainNumberStart(s, SkipSpace(s, i + Len(valueVerbs[v])))
                   ELSE 0 : v \in 1..Len(valueVerbs)} \ {0}
    IN  IF starts = {} THEN 0 ELSE Min(starts)

\* _extractValue guessing percent from 30 on
_extractValue_percentFrom30(lower) ==
    LET \* the start indexes of matches of /(\d+(?:[.,]\d+)?)\s*(?:u1|u2)/
        UnitMatches(s, units) ==
            {i \in 1..Len(s) :
                /\ IsDigit(s[i])
                /\ \E u \in 1..Len(units) :
                       StartsWithAt(s, units[u], SkipSpace(s, NumberAt(s, i).end + 1))}
        \* the start indexes of matches of /\b(\d+(?:[.,]\d+)?)\b/
        StandaloneMatches(s) ==
            {i \in 1..Len(s) :
                /\ IsDigit(s[i])
                /\ (i = 1 \/ ~IsWordChar(s[i - 1]))
                /\ LET a == DigitRunEnd(s, i)
                   IN  HasFraction(s, a) \/ a = Len(s) \/ ~IsWordChar(s[a + 1])}
        \* the number captured by /\b(\d+(?:[.,]\d+)?)\b/ at index i: the
        \* fraction is part of the match only when a word boundary follows it
        StandaloneAt(s, i) ==
            LET a    == DigitRunEnd(s, i)
                full == NumberAt(s, i)
            IN  IF HasFraction(s, a) /\ (full.end = Len(s) \/ ~IsWordChar(s[full.end + 1]))
                THEN full.value
                ELSE Number(SubSeq(s, i, a), <<>>)
        \* val <= x and val >= x for a number <<mantissa, decimals>> and an integer x
        NumLeq(val, x) == val[1] <= x * Pow10(val[2])
        NumGeq(val, x) == val[1] >= x * Pow10(val[2])
        ValueInfo(value, unit) == [present |-> TRUE, value |-> value, unit |-> unit]
        \* the unit of a plain number after a value verb
        guess(val) ==
            IF NumLeq(val, 100) /\ NumGeq(val, 30) THEN ValueInfo(val, "percent")
            ELSE IF NumGeq(val, 5) /\ NumLeq(val, 30) THEN ValueInfo(val, "degree")
            ELSE ValueInfo(val, "null")
        first(percent, degree, plain, alone) ==
            IF percent # {} THEN ValueInfo(NumberAt(lower, Min(percent)).value, "percent")
            ELSE IF degree # {} THEN ValueInfo(NumberAt(lower, Min(degree)).value, "degree")
            ELSE IF plain # {}
                 THEN guess(NumberAt(lower, PlainMatchAt(lower, Min(plain))).value)
            ELSE IF alone # {} THEN ValueInfo(StandaloneAt(lower, Min(alone)), "null")
            ELSE NoValue
    IN  first(UnitMatches(lower, <<<<"p","r","o","z","e","n","t">>, <<"%">>>>),
              UnitMatches(lower, <<<<"g","r","a","d">>, <<"deg">>>>),
              {i \in 1..Len(lower) : PlainMatchAt(lower, i) # 0},
              StandaloneMatches(lower))

\* IntentParser._extractValue(lower)
_extractValue(lower) ==
    LET \* the start indexes of matches of /(\d+(?:[.,]\d+)?)\s*(?:u1|u2)/
        UnitMatches(s, units) ==
            {i \in 1..Len(s) :
                /\ IsDigit(s[i])
                /\ \E u \in 1..Len(units) :
                       StartsWithAt(s, units[u], SkipSpace(s, NumberAt(s, i).end + 1))}
        \* the start indexes of matches of /\b(\d+(?:[.,]\d+)?)\b/
        StandaloneMatches(s) ==
            {i \in 1..Len(s) :
                /\ IsDigit(s[i])
                /\ (i = 1 \/ ~IsWordChar(s[i - 1]))
                /\ LET a == DigitRunEnd(s, i)
                   IN  HasFraction(s, a) \/ a = Len(s) \/ ~IsWordChar(s[a + 1])}
        \* the number captured by /\b(\d+(?:[.,]\d+)?)\b/ at index i: the
        \* fraction is part of the match only when a word boundary follows it
        StandaloneAt(s, i) ==
            LET a    == DigitRunEnd(s, i)
                full == NumberAt(s, i)
            IN  IF HasFraction(s, a) /\ (full.end = Len(s) \/ ~IsWordChar(s[full.end + 1]))
                THEN full.value
                ELSE Number(SubSeq(s, i, a), <<>>)
        \* val <= x and val >= x for a number <<mantissa, decimals>> and an integer x
        NumLeq(val, x) == val[1] <= x * Pow10(val[2])
        NumGeq(val, x) == val[1] >= x * Pow10(val[2])
        ValueInfo(value, unit) == [present |-> TRUE, value |-> value, unit |-> unit]
        \* the unit of a plain number after a value verb
        guess(val) ==
            IF NumLeq(val, 100) /\ ~NumLeq(val, 30) THEN ValueInfo(val, "percent")
            ELSE IF NumGeq(val, 5) /\ NumLeq(val, 30) THEN ValueInfo(val, "degree")
            ELSE ValueInfo(val, "null")
        first(percent, degree, plain, alone) ==
            IF percent # {} THEN ValueInfo(NumberAt(lower, Min(percent)).value, "percent")
            ELSE IF degree # {} THEN ValueInfo(NumberAt(lower, Min(degree)).value, "degree")
            ELSE IF plain # {}
                 THEN guess(NumberAt(lower, PlainMatchAt(lower, Min(plain))).value)
            ELSE IF alone # {} THEN ValueInfo(StandaloneAt(lower, Min(alone)), "null")
            ELSE NoValue
    IN  first(UnitMatches(lower, <<<<"p","r","o","z","e","n","t">>, <<"%">>>>),
              UnitMatches(lower, <<<<"g","r","a","d">>, <<"deg">>>>),
              {i \in 1..Len(lower) : PlainMatchAt(lower, i) # 0},
              StandaloneMatches(lower))

----------------------------------------------------------------------------
(* EnumResolver: device names *)

\* object metadata of the store: getForeignObjectAsync(id) gives the object
\* with that id, null when there is none
getForeignObject(objects, id) ==
    IF \E i \in 1..Len(objects) : objects[i].id = id
    THEN objects[CHOOSE i \in 1..Len(objects) : objects[i].id = id]
    ELSE [id |-> Undefined, name |-> NameAbsent, type |-> "none", role |-> <<>>,
          write |-> TRUE, min |-> <<>>, max |-> <<>>]

\* String.prototype.split('.')
RECURSIVE SplitDot(_, _, _, _)
SplitDot(s, i, cur, acc) ==
    IF i > Len(s) THEN Append(acc, cur)
    ELSE IF s[i] = "." THEN SplitDot(s, i + 1, <<>>, Append(acc, cur))
    ELSE SplitDot(s, i + 1, Append(cur, s[i]), acc)

\* parts.slice(0, n).join('.')
RECURSIVE JoinDot(_, _)
JoinDot(parts, n) ==
    IF n <= 0 THEN <<>>
    ELSE IF n = 1 THEN parts[1]
    ELSE JoinDot(parts, n - 1) \o <<".">> \o parts[n]

\* Set.prototype.add on a Set kept in insertion order
SetAdd(set, x) == IF ArrIncludes(set, x) THEN set ELSE Append(set, x)

RECURSIVE SetAddAll(_, _, _)
SetAddAll(set, xs, k) ==
    IF k > Len(xs) THEN set ELSE SetAddAll(SetAdd(set, xs[k]), xs, k + 1)

\* genericWords.has(word)
IsGeneric(word) ==
    LET genericWords ==
            <<
            <<"s","t","a","t","e">>, <<"s","t","a","t","u","s">>, <<"v","a","l","u","e">>, <<"w","e","r","t">>,
            <<"s","e","t">>, <<"g","e","t">>, <<"o","n">>, <<"o","f","f">>, <<"l","e","v","e","l">>,
            <<"s","w","i","t","c","h">>, <<"s","e","n","s","o","r">>, <<"t","r","u","e">>, <<"f","a","l","s","e">>,
            <<"b","r","i","g","h","t","n","e","s","s">>, <<"r","e","a","c","h","a","b","l","e">>,
            <<"b","a","t","t","e","r","y">>, <<"a","l","i","v","e">>, <<"c","o","n","n","e","c","t","e","d">>,
            <<"w","o","r","k","i","n","g">> >>
    IN  ArrIncludes(genericWords, word)

\* addName of _collectHierarchyNames
addName(names, fullName) ==
    IF Len(fullName) < 2 THEN names
    ELSE LET low == ToLowerCase(fullName)
         IN  SetAddAll(IF IsGeneric(low) THEN names ELSE SetAdd(names, low),
                       \* the words of low.split(/[\s_\-\.]+/) that are kept
                       SelectSeq(SplitRuns(low, SpaceChars \cup {"_", "-", "."}, 1, <<>>, <<>>),
                                 LAMBDA word : Len(word) >= 3 /\ ~IsGeneric(word)), 1)

\* EnumResolver._collectHierarchyNames(stateId, names) on an empty Set: the
\* names of the state, its parent channel, the id segment of the channel and
\* the parent device, in insertion order
_collectHierarchyNames(objects, stateId) ==
    LET \* if (obj) addName(this._getName(obj))
        addObjectName(names, obj) ==
            IF obj.id = Undefined THEN names ELSE addName(names, _getName(obj))
        parts == SplitDot(stateId, 1, <<>>, <<>>)
        n     == Len(parts)
        seg   == IF n > 2 THEN parts[n - 1] ELSE <<>>
        \* the state itself
        ofState(names) == addObjectName(names, getForeignObject(objects, stateId))
        \* the parent channel and its id segment
        ofChannel(names) ==
            IF n > 2
            THEN addObjectName(names, getForeignObject(objects, JoinDot(parts, n - 1)))
            ELSE names
        ofSegment(names) ==
            IF n > 2 /\ Len(seg) >= 3 /\ ~IsGeneric(ToLowerCase(seg))
            THEN SetAdd(names, ToLowerCase(seg)) ELSE names
        \* the parent device
        ofDevice(names) ==
            IF n > 3
            THEN addObjectName(names, getForeignObject(objects, JoinDot(parts, n - 2)))
            ELSE names
    IN  ofDevice(ofSegment(ofChannel(ofState(<<>>))))

\* the members of every group of a Map, in order
RECURSIVE MembersOf(_, _)
MembersOf(enumMap, i) ==
    IF i > Len(enumMap) THEN <<>>
    ELSE enumMap[i].members \o MembersOf(enumMap, i + 1)

\* the candidate ids searchByDeviceName takes from the rooms and functions
\* maps before its first await
EnumCandidates(roomMap, funcMap) ==
    SetOf(MembersOf(roomMap, 1) \o MembersOf(funcMap, 1))

\* the matches array of searchByDeviceName
RECURSIVE DeviceMatches(_, _, _, _)
DeviceMatches(objects, candidateIds, lower, k) ==
    IF k > Len(candidateIds) THEN <<>>
    ELSE LET \* the first name of at least 4 characters that occurs in the text
             match(names) ==
                 LET hits == {j \in 1..Len(names) :
                                 Len(names[j]) >= 4 /\ Includes(lower, names[j])}
                 IN  IF hits = {} THEN <<>>
                     ELSE <<[stateId |-> candidateIds[k], deviceName |-> names[Min(hits)]]>>
         IN  match(_collectHierarchyNames(objects, candidateIds[k]))
             \o DeviceMatches(objects, candidateIds, lower, k + 1)

\* searchByDeviceName without the return of a single match
searchByDeviceName_noSingleMatch(objects, userStates, enumCandidates, userText) ==
    LET pick(matches) ==
            LET len(k) == Len(matches[k].deviceName)
                idx    == 1..Len(matches)
                best   == Min({k \in idx : \A j \in idx : len(j) <= len(k)})
                second == Max({len(j) : j \in idx \ {best}})
            IN  IF Len(matches) > 1 /\ len(best) > second + 2 THEN matches[best]
                ELSE NoDirect
    IN  pick(DeviceMatches(objects, SetAddAll(enumCandidates, userStates, 1),
                           ToLowerCase(userText), 1))

\* searchByDeviceName taking the longest of several matches when it is longer by more than 1
searchByDeviceName_margin1(objects, userStates, enumCandidates, userText) ==
    LET pick(matches) ==
            LET len(k) == Len(matches[k].deviceName)
                idx    == 1..Len(matches)
                best   == Min({k \in idx : \A j \in idx : len(j) <= len(k)})
                second == Max({len(j) : j \in idx \ {best}})
            IN  IF Len(matches) = 1 THEN matches[1]
                ELSE IF Len(matches) > 1 /\ len(best) > second + 1 THEN matches[best]
                ELSE NoDirect
    IN  pick(DeviceMatches(objects, SetAddAll(enumCandidates, userStates, 1),
                           ToLowerCase(userText), 1))

\* EnumResolver.searchByDeviceName(userText), from the candidates of the maps
\* on: the 0_userdata states are added, every candidate is matched, and one
\* match, or the longest of several by more than 2 characters, is returned
searchByDeviceName(objects, userStates, enumCandidates, userText) ==
    LET pick(matches) ==
            LET len(k) == Len(matches[k].deviceName)
                idx    == 1..Len(matches)
                best   == Min({k \in idx : \A j \in idx : len(j) <= len(k)})
                second == Max({len(j) : j \in idx \ {best}})
            IN  IF Len(matches) = 1 THEN matches[1]
                ELSE IF Len(matches) > 1 /\ len(best) > second + 2 THEN matches[best]
                ELSE NoDirect
    IN  pick(DeviceMatches(objects, SetAddAll(enumCandidates, userStates, 1),
                           ToLowerCase(userText), 1))

\* the names of allNames that occur in the text, each with its owners
RECURSIVE NameOwners(_, _, _, _, _)
NameOwners(allNames, keys, nameSets, lower, k) ==
    IF k > Len(allNames) THEN <<>>
    ELSE (IF Len(allNames[k]) >= 3 /\ Includes(lower, allNames[k])
          THEN <<[name |-> allNames[k],
                  owners |-> SelectSeq(keys, LAMBDA id : ArrIncludes(nameSets[id], allNames[k]))]>>
          ELSE <<>>)
         \o NameOwners(allNames, keys, nameSets, lower, k + 1)

\* the loop picking the discriminating name without the tie-break on owners
RECURSIVE BestName_noTieBreak(_, _, _, _)
BestName_noTieBreak(nameToOwners, n, k, best) ==
    IF k > Len(nameToOwners) THEN best
    ELSE LET c == nameToOwners[k]
         IN  BestName_noTieBreak(nameToOwners, n, k + 1,
                 IF Len(c.owners) = 0 \/ Len(c.owners) = n THEN best
                 ELSE IF \/ best.name = Undefined
                         \/ Len(c.name) > Len(best.name)
                      THEN c
                 ELSE best)

\* the loop that picks the most discriminating name: owned by some but not
\* all of the n state ids, the longest, then the one with the fewest owners
RECURSIVE BestName(_, _, _, _)
BestName(nameToOwners, n, k, best) ==
    IF k > Len(nameToOwners) THEN best
    ELSE LET c == nameToOwners[k]
         IN  BestName(nameToOwners, n, k + 1,
                 IF Len(c.owners) = 0 \/ Len(c.owners) = n THEN best
                 ELSE IF \/ best.name = Undefined
                         \/ Len(c.name) > Len(best.name)
                         \/ (Len(c.name) = Len(best.name) /\ Len(c.owners) < Len(best.owners))
                      THEN c
                 ELSE best)

RECURSIVE AllNames(_, _, _, _)
AllNames(stateIds, nameSets, k, acc) ==
    IF k > Len(stateIds) THEN acc
    ELSE AllNames(stateIds, nameSets, k + 1, SetAddAll(acc, nameSets[stateIds[k]], 1))

\* EnumResolver.filterByDeviceName(stateIds, userText): { stateIds, deviceName }
filterByDeviceName(objects, stateIds, userText) ==
    LET result(best) ==
            IF Len(stateIds) <= 1 THEN [stateIds |-> stateIds, deviceName |-> Undefined]
            ELSE IF best.name # Undefined
                 THEN [stateIds |-> best.owners, deviceName |-> best.name]
            ELSE [stateIds |-> stateIds, deviceName |-> Undefined]
        choose(nameSets) ==
            result(BestName(NameOwners(AllNames(stateIds, nameSets, 1, <<>>), SetOf(stateIds),
                                       nameSets, ToLowerCase(userText), 1),
                            Len(stateIds), 1, [name |-> Undefined, owners |-> <<>>]))
    IN  choose([id \in Range(stateIds) |-> _collectHierarchyNames(objects, id)])

----------------------------------------------------------------------------
(* The installation: object metadata *)


\* the instance, two named channels and one without a name, a state with a
\* generic name and one without a name (hue.0.wand.on has no object), two more
\* states of the channels that are in no group, and two user-defined states;
\* type "none" and role '' stand for an absent common.type and common.role,
\* <<>> for an absent common.min or common.max and <<n>> for a declared one
Objects ==
    LET Object(id, name, type, role, write, min, max) ==
            [id |-> id, name |-> name, type |-> type, role |-> role, write |-> write,
             min |-> min, max |-> max]
        Node(id, name) == Object(id, name, "none", <<>>, TRUE, <<>>, <<>>)
    IN
    <<Node(Str.hue, NameStr(<<"P","h","i","l","i","p","s"," ","H","u","e">>)),
      Node(Str.dev_spiegel, NameStr(<<"S","p","i","e","g","e","l">>)),
      Node(Str.dev_decke, NameI18n(<<"D","e","c","k","e">>, <<"C","e","i","l","i","n","g">>)),
      Node(Str.dev_wand, NameAbsent),
      Object(Str.st_spiegel, NameStr(<<"O","n">>), "boolean", <<"s","w","i","t","c","h">>, TRUE, <<>>, <<>>),
      Object(Str.st_decke, NameAbsent, "number", <<"l","e","v","e","l",".","d","i","m","m","e","r">>, TRUE, <<>>, <<>>),
      Object(Str.st_temp, NameStr(<<"T","e","m","p","e","r","a","t","u","r">>), "number", <<"v","a","l","u","e",".","t","e","m","p","e","r","a","t","u","r","e">>, TRUE, <<>>, <<>>),
      Object(Str.st_lock, NameStr(<<"L","o","c","k">>), "boolean", <<"s","w","i","t","c","h",".","l","o","c","k">>, FALSE, <<>>, <<>>),
      Object(Str.venti, NameStr(<<"V","e","n","t","i">>), "number", <<"l","e","v","e","l",".","t","e","m","p","e","r","a","t","u","r","e">>, TRUE, <<5>>, <<25>>),
      Object(Str.fan, NameStr(<<"V","e","n","t","i","l","a","t","o","r">>), "string", <<>>, TRUE, <<>>, <<>>)>>

\* Object.keys of getForeignObjectsAsync('0_userdata.0.*', 'state')
UserStates == <<Str.venti, Str.fan>>

----------------------------------------------------------------------------
(* IntentParser.parse as a process: each await is a point where other
   handlers run *)


\* the intent object of the direct-device path (lines 63-72)
DirectIntent(action, directMatch, valueInfo) ==
    [isNull |-> FALSE, action |-> action, room |-> Undefined, function |-> Undefined,
     deviceName |-> directMatch.deviceName,
     value |-> valueInfo.value, unit |-> valueInfo.unit,
     confidence |-> DirectConfidence,
     stateIds |-> <<directMatch.stateId>>]

\* the intent object of the room/function path (lines 114-129)
EnumIntent(action, room, func, deviceName, valueInfo, stateIds) ==
    [isNull |-> FALSE, action |-> action,
     \* room?.name || null, func?.name || null
     room |-> IF Truthy(room.name) THEN room.name ELSE Undefined,
     function |-> IF Truthy(func.name) THEN func.name ELSE Undefined,
     deviceName |-> deviceName,
     value |-> valueInfo.value, unit |-> valueInfo.unit,
     confidence |-> IntentConfidence(
                        _calcConfidence(room # NoMatch, func # NoMatch, action, valueInfo.present),
                        deviceName # Undefined),
     stateIds |-> stateIds]

\* lines 80-102 of parse() without the safety gate of lines 88-91
ParseMain_noSafetyGate(lower, room, func, roomMap, funcMap) ==
    LET gate(action, found) ==
            IF room = NoMatch /\ func = NoMatch
            THEN [kind |-> "null", action |-> NoAction, found |-> <<>>]
            ELSE IF action = NoAction THEN [kind |-> "null", action |-> NoAction, found |-> <<>>]
            ELSE IF Len(found) = 0 THEN [kind |-> "null", action |-> action, found |-> found]
            ELSE [kind |-> "found", action |-> action, found |-> found]
    IN  gate(_detectAction(lower), findStates(roomMap, funcMap, room.name, func.name))

\* lines 80-102 of parse(): at least one of room and function, an action, both
\* room and function unless the action is query, and the state ids of
\* findStates on the maps as they are now
ParseMain(lower, room, func, roomMap, funcMap) ==
    LET gate(action, found) ==
            IF room = NoMatch /\ func = NoMatch
            THEN [kind |-> "null", action |-> NoAction, found |-> <<>>]
            ELSE IF action = NoAction THEN [kind |-> "null", action |-> NoAction, found |-> <<>>]
            ELSE IF action # "query" /\ (room = NoMatch \/ func = NoMatch)
                 THEN [kind |-> "null", action |-> action, found |-> <<>>]
            ELSE IF Len(found) = 0 THEN [kind |-> "null", action |-> action, found |-> found]
            ELSE [kind |-> "found", action |-> action, found |-> found]
    IN  gate(_detectAction(lower), findStates(roomMap, funcMap, room.name, func.name))

\* const lower = text.toLowerCase().trim()
Lower(text) == Trim(ToLowerCase(text))

\* parse() from line 80 to its next await or its return, with the locals so far
ParseContinue(lower, locals) ==
    LET continue(main) ==
            IF main.kind = "null"
            THEN /\ parsePc' = "returned"
                 /\ parseIntent' = NullIntent
                 /\ parseLocals' = [locals EXCEPT !.found = main.found]
            ELSE IF Len(main.found) > 1
            THEN /\ parsePc' = "awaitFilter"
                 /\ parseIntent' = NullIntent
                 /\ parseLocals' = [locals EXCEPT !.found = main.found, !.stateIds = main.found]
            ELSE /\ parsePc' = "returned"
                 /\ parseIntent' = EnumIntent(main.action, locals.room, locals.func, Undefined,
                                              _extractValue(lower), main.found)
                 /\ parseLocals' = [locals EXCEPT !.found = main.found, !.stateIds = main.found]
    IN  continue(ParseMain(lower, locals.room, locals.func, rooms, functions))

\* parse() with the device search of step 2b run for every text
ParseStart_alwaysSearch(text) ==
    /\ ready
    /\ parsePc = "idle"
    /\ parseText' = text
    /\ LET start(lower, locals) ==
               IF TRUE
               THEN /\ parsePc' = "awaitSearch"
                    /\ parseIntent' = NullIntent
                    /\ parseLocals' = [locals EXCEPT !.searched = TRUE,
                                                     !.cands = EnumCandidates(rooms, functions)]
               ELSE ParseContinue(lower, locals)
       IN  start(Lower(text),
                 [NoLocals EXCEPT !.room = _matchRoom(rooms, Lower(text)),
                                  !.func = _matchFunction(functions, Lower(text)),
                                  !.snap = Snapshot])
    /\ UNCHANGED <<store, resolverVars, findVars, loadVars, confVars, pureVars, execVars, race, llm>>

\* parse(text) is called and runs to its first await or to its return: room
\* and function are matched on the maps; unless both matched,
\* searchByDeviceName is called, which collects its candidates from the maps
\* and suspends
ParseStart(text) ==
    /\ ready
    /\ parsePc = "idle"
    /\ parseText' = text
    /\ LET start(lower, locals) ==
               IF locals.room = NoMatch \/ locals.func = NoMatch
               THEN /\ parsePc' = "awaitSearch"
                    /\ parseIntent' = NullIntent
                    /\ parseLocals' = [locals EXCEPT !.searched = TRUE,
                                                     !.cands = EnumCandidates(rooms, functions)]
               ELSE ParseContinue(lower, locals)
       IN  start(Lower(text),
                 [NoLocals EXCEPT !.room = _matchRoom(rooms, Lower(text)),
                                  !.func = _matchFunction(functions, Lower(text)),
                                  !.snap = Snapshot])
    /\ UNCHANGED <<store, resolverVars, findVars, loadVars, confVars, pureVars, execVars, race, llm>>

\* searchByDeviceName resolves: with a match and an action, the direct intent
\* is returned; otherwise parse() goes on from line 80
ParseSearchResume ==
    /\ parsePc = "awaitSearch"
    /\ LET resume(lower, direct, action) ==
               IF direct # NoDirect /\ action # NoAction
               THEN /\ parsePc' = "returned"
                    /\ parseIntent' = DirectIntent(action, direct, _extractValue(lower))
                    /\ parseLocals' = [parseLocals EXCEPT !.direct = direct]
               ELSE ParseContinue(lower, [parseLocals EXCEPT !.direct = direct])
       IN  resume(Lower(parseText),
                  searchByDeviceName(Objects, UserStates, parseLocals.cands, Lower(parseText)),
                  _detectAction(Lower(parseText)))
    /\ UNCHANGED <<store, resolverVars, findVars, loadVars, parseText, confVars, pureVars, execVars, race, llm>>

\* filterByDeviceName resolves, and parse() itself writes a response to lastResponse
ParseFilterResume_writes ==
    /\ parsePc = "awaitFilter"
    /\ LET resume(lower, filtered) ==
               /\ parseIntent' = EnumIntent(_detectAction(lower), parseLocals.room,
                                            parseLocals.func, filtered.deviceName,
                                            _extractValue(lower), filtered.stateIds)
               /\ parseLocals' = [parseLocals EXCEPT !.stateIds = filtered.stateIds]
       IN  resume(Lower(parseText),
                  filterByDeviceName(Objects, parseLocals.stateIds, Lower(parseText)))
    /\ parsePc' = "returned"
    /\ UNCHANGED <<store, resolverVars, findVars, loadVars, parseText, confVars, pureVars, ptPc, exec, writes, race, llm>>
    /\ lastResponse' = TRUE

\* filterByDeviceName resolves: the intent is built and returned
ParseFilterResume ==
    /\ parsePc = "awaitFilter"
    /\ LET resume(lower, filtered) ==
               /\ parseIntent' = EnumIntent(_detectAction(lower), parseLocals.room,
                                            parseLocals.func, filtered.deviceName,
                                            _extractValue(lower), filtered.stateIds)
               /\ parseLocals' = [parseLocals EXCEPT !.stateIds = filtered.stateIds]
       IN  resume(Lower(parseText),
                  filterByDeviceName(Objects, parseLocals.stateIds, Lower(parseText)))
    /\ parsePc' = "returned"
    /\ UNCHANGED <<store, resolverVars, findVars, loadVars, parseText, confVars, pureVars, execVars, race, llm>>

----------------------------------------------------------------------------
(* parse on a loaded resolver: specification SpecParse *)

\* the texts parse() is called with: a room word, a function word, a device
\* word and an action phrase, each of which may be missing, separated by one
\* space
Texts ==
    LET RoomWords   == {<<>>, <<"B","a","d">>, <<"b","a","t","h","r","o","o","m">>, <<"f","l","u","r">>}
        FuncWords   == {<<>>, <<"L","i","c","h","t">>, <<"l","a","m","p","e">>}
        DeviceWords == {<<>>, <<"s","p","i","e","g","e","l">>, <<"w","a","n","d">>, <<"v","e","n","t","i">>, <<"v","e","n","t","i","l","a","t","o","r">>}
        ActionWords == {<<>>, <<"e","i","n">>, <<"a","u","s">>, <<"h","e","l","l","e","r">>, <<"a","u","f"," ","2","2">>, <<"a","u","f"," ","5","0"," ","p","r","o","z","e","n","t">>, <<"a","u","f"," ","x","2","y">>,
                       <<"s","t","a","t","u","s">>, <<"?">>}
        join(a, b) == IF a = <<>> THEN b ELSE IF b = <<>> THEN a ELSE a \o <<" ">> \o b
    IN  {join(join(join(r, f), d), a) :
            r \in RoomWords, f \in FuncWords, d \in DeviceWords, a \in ActionWords}

InitParse ==
    /\ store \in StoreVersions
    /\ rooms = FillEnum(store.rooms, 1, Str.enum_rooms, <<>>, <<>>).map
    /\ stateToRooms = FillEnum(store.rooms, 1, Str.enum_rooms, <<>>, <<>>).rev
    /\ functions = FillEnum(store.functions, 1, Str.enum_functions, <<>>, <<>>).map
    /\ stateToFunctions = FillEnum(store.functions, 1, Str.enum_functions, <<>>, <<>>).rev
    /\ fsArgs = [room |-> Undefined, function |-> Undefined]
    /\ fsPc = "idle"
    /\ fsResult = <<>>
    /\ LoadIdle
    /\ ParseIdle
    /\ ConfIdle
    /\ ExecIdle
    /\ PureIdle
    /\ RaceIdle
    /\ LlmIdle

NextParse ==
    \/ \E text \in Texts : ParseStart(text)
    \/ ParseSearchResume
    \/ ParseFilterResume

SpecParse == InitParse /\ [][NextParse]_vars

----------------------------------------------------------------------------
(* Claims about parse on a loaded resolver (SpecParse) *)

\* what the text of the call matches on the loaded maps
PLower == Lower(parseText)
PRoomMatched == _matchRoom(rooms, PLower) # NoMatch
PFuncMatched == _matchFunction(functions, PLower) # NoMatch
PDirect == searchByDeviceName(Objects, UserStates, EnumCandidates(rooms, functions), PLower)
PReturnedIntent == parsePc = "returned" /\ ~parseIntent.isNull

\* C1: parse() returns a write intent (set_on, set_off, set_value, increase,
\* decrease) only if both a room and a function were matched, or if the
\* intent is the single state that searchByDeviceName returned; a write verb
\* with only a room or only a function and no direct device match gives null.
C1_SafetyGate ==
    /\ (PReturnedIntent /\ parseIntent.action \in WriteActions) =>
           \/ PRoomMatched /\ PFuncMatched
           \/ /\ ~(PRoomMatched /\ PFuncMatched)
              /\ PDirect # NoDirect
              /\ parseIntent.stateIds = <<PDirect.stateId>>
    /\ (/\ parsePc = "returned"
        /\ _detectAction(PLower) \in WriteActions
        /\ PRoomMatched # PFuncMatched
        /\ PDirect = NoDirect)
           => parseIntent.isNull

\* a write verb with a room, no function and no device name has been parsed,
\* and the result is null
C1_Witness ==
    /\ parsePc = "returned"
    /\ _detectAction(PLower) \in WriteActions
    /\ PRoomMatched /\ ~PFuncMatched
    /\ PDirect = NoDirect
    /\ parseIntent.isNull

\* 0.3 + 0.2 [room] + 0.2 [function] + 0.2 [action] + 0.1 [value and
\* set_value] + 0.1 [room and function] + 0.05 [device name], capped at 1.0,
\* summed in this order in double arithmetic, for the fields of an intent
ScoreOf(intent) ==
    LET s0 == <<6, 0>>
        s1 == IF intent.room # Undefined THEN FAdd(s0, 4) ELSE s0
        s2 == IF intent.function # Undefined THEN FAdd(s1, 4) ELSE s1
        s3 == IF intent.action \in (WriteActions \cup {"query"}) THEN FAdd(s2, 4) ELSE s2
        s4 == IF intent.value # NullNum /\ intent.action = "set_value" THEN FAdd(s3, 2) ELSE s3
        s5 == IF intent.room # Undefined /\ intent.function # Undefined THEN FAdd(s4, 2) ELSE s4
        s6 == IF intent.deviceName # Undefined THEN FAdd(s5, 1) ELSE s5
    IN  FMin(s6, One)

\* C9: the confidence of every intent parse() returns is min(1.0, 0.3 + 0.2
\* [room] + 0.2 [function] + 0.2 [action] + 0.1 [value extracted and
\* set_value] + 0.1 [room and function] + 0.05 [device name narrowed]), on
\* the room/function path and on the direct-device path.
C9_ConfidenceFormula ==
    PReturnedIntent => parseIntent.confidence = ScoreOf(parseIntent)

\* C9 (amended): an intent of the room/function path has the confidence of
\* the formula, summed in double arithmetic (room, function and action
\* without an extracted value give 0.9999999999999999); an intent of the
\* direct-device path has the constant confidence 0.85.
C9_ConfidenceByPath ==
    PReturnedIntent =>
        IF parseIntent.room = Undefined /\ parseIntent.function = Undefined
        THEN parseIntent.confidence = DirectConfidence
        ELSE parseIntent.confidence = ScoreOf(parseIntent)

\* a direct device match with an extracted value has been returned with 0.85,
\* where the formula gives 0.65
C9_Witness ==
    /\ PReturnedIntent
    /\ parseIntent.room = Undefined /\ parseIntent.function = Undefined
    /\ parseIntent.action = "set_value" /\ parseIntent.value # NullNum
    /\ parseIntent.confidence = DirectConfidence
    /\ ScoreOf(parseIntent) = <<13, 0>>

\* what parse() itself saw: its room and function matches, and whether it
\* returned the intent of the direct-device path
PRoom == parseLocals.room # NoMatch
PFunc == parseLocals.func # NoMatch
PDirectIntent ==
    /\ PReturnedIntent
    /\ parseIntent.room = Undefined /\ parseIntent.function = Undefined
    /\ parseLocals.direct # NoDirect
    /\ parseIntent.stateIds = <<parseLocals.direct.stateId>>

\* C11: every non-null result of parse() is fully populated: its action is
\* one of the six action values, stateIds is not empty, the confidence lies
\* in [0, 1], and an intent with action set_value carries a number as value.
C11_OutputContract ==
    PReturnedIntent =>
        /\ parseIntent.action \in WriteActions \cup {"query"}
        /\ parseIntent.stateIds # <<>>
        /\ ~FLess(parseIntent.confidence, <<0, 0>>)
        /\ ~FLess(One, parseIntent.confidence)
        /\ (parseIntent.action = "set_value" => parseIntent.value # NullNum)

\* C12: parse() returns the intent of the direct-device path (room and
\* function null, the single state id of searchByDeviceName) only if
\* _matchRoom and _matchFunction both returned no match.
C12_DirectOnlyWithoutEnums ==
    PDirectIntent => (~PRoom /\ ~PFunc)

\* C12 (amended): parse() returns the intent of the direct-device path only
\* if _matchRoom and _matchFunction did not both return a match; one of the
\* two may have matched.
C12_DirectUnlessBoth ==
    PDirectIntent => ~(PRoom /\ PFunc)

\* the direct-device intent has been returned for a text in which a room was
\* matched
C12_Witness ==
    PDirectIntent /\ PRoom /\ ~PFunc

\* the candidates searchByDeviceName knows on the loaded resolver, and those
\* of them with a name of at least 4 characters that occurs in the text
KnownCandidates == Range(EnumCandidates(rooms, functions)) \cup Range(UserStates)
NamedIn(id, lower) ==
    {name \in Range(_collectHierarchyNames(Objects, id)) :
        Len(name) >= 4 /\ Includes(lower, name)}
NamedCandidates == {id \in KnownCandidates : NamedIn(id, PLower) # {}}

\* C13: when the text holds a significant name of exactly one known
\* candidate state, matches no room and no function and holds an action
\* keyword, parse() returns an intent with that action, deviceName a
\* lowercased name of the candidate that occurs in the text, room and
\* function null, and stateIds holding exactly that state id.
C13_DirectDeviceMatch ==
    (/\ parsePc = "returned"
     /\ ~PRoomMatched /\ ~PFuncMatched
     /\ _detectAction(PLower) # NoAction
     /\ Cardinality(NamedCandidates) = 1) =>
        /\ ~parseIntent.isNull
        /\ parseIntent.action = _detectAction(PLower)
        /\ parseIntent.room = Undefined /\ parseIntent.function = Undefined
        /\ \E id \in NamedCandidates :
               /\ parseIntent.stateIds = <<id>>
               /\ parseIntent.deviceName \in NamedIn(id, PLower)

\* parse() has returned for a text that names one candidate, matches no room
\* and no function and holds an action keyword
C13_Witness ==
    /\ parsePc = "returned"
    /\ ~PRoomMatched /\ ~PFuncMatched
    /\ _detectAction(PLower) # NoAction
    /\ Cardinality(NamedCandidates) = 1
    /\ ~parseIntent.isNull

----------------------------------------------------------------------------
(* parse while the enums are reloaded: specification SpecReload *)

NextReload ==
    \/ StoreChange
    \/ \E p \in LoadProcs : LoadStart(p)
    \/ \E p \in LoadProcs : LoadRoomsFetched(p)
    \/ \E p \in LoadProcs : LoadRoomsFailed(p)
    \/ \E p \in LoadProcs : LoadFuncsFetched(p)
    \/ \E p \in LoadProcs : LoadFuncsFailed(p)
    \/ \E p \in LoadProcs : LoadReturn(p)
    \/ \E text \in {<<"B","a","d"," ","?">>, <<"B","a","d"," ","L","i","c","h","t"," ","e","i","n">>} :
           ParseStart(text)
    \/ ParseSearchResume
    \/ ParseFilterResume

SpecReload == InitParse /\ [][NextReload]_vars

----------------------------------------------------------------------------
(* Claims about parse during a reload (SpecReload) *)

\* parse() has awaited searchByDeviceName and has gone on to findStates: no
\* direct intent was returned, and the action is a query on a room or a function
PFoundAfterAwait ==
    /\ parsePc \in {"awaitFilter", "returned"}
    /\ parseLocals.searched
    /\ ~(parseLocals.direct # NoDirect /\ _detectAction(PLower) # NoAction)
    /\ _detectAction(PLower) = "query"
    /\ (parseLocals.room # NoMatch \/ parseLocals.func # NoMatch)

\* C3: a parse() that is in flight when a reload is triggered completes
\* against a single snapshot: the state ids it gets from findStates after
\* awaiting searchByDeviceName are those of the maps in which it matched the
\* room and function names.
C3_SingleSnapshot ==
    PFoundAfterAwait =>
        parseLocals.found = findStates(parseLocals.snap.rooms, parseLocals.snap.functions,
                                       parseLocals.room.name, parseLocals.func.name)

----------------------------------------------------------------------------
(* AiAssistant._executeFastIntent and the fast path of _processText *)

\* the values the fast path writes: a boolean, or a number <<mantissa, decimals>>
JsBool(b) == [type |-> "boolean", b |-> b, n |-> <<0, 0>>]
JsNum(n) == [type |-> "number", b |-> FALSE, n |-> n]

\* getForeignObjectAsync(id) gave null
NoObject == getForeignObject(<<>>, Undefined)

\* what an awaited getForeignObjectAsync(id) can give: it rejects, it resolves
\* with null (no such object, or one that was deleted since), or it resolves
\* with the object
FetchOutcomes(id) ==
    {[ok |-> FALSE, obj |-> NoObject], [ok |-> TRUE, obj |-> NoObject],
     [ok |-> TRUE, obj |-> getForeignObject(Objects, id)]}

\* what an awaited getForeignStateAsync(id) can give: it rejects, it resolves
\* with null, or with a state whose val is null (<<>>) or a number (<<n>>)
ReadOutcomes ==
    {[ok |-> FALSE, state |-> FALSE, val |-> <<>>], [ok |-> TRUE, state |-> FALSE, val |-> <<>>]}
    \cup {[ok |-> TRUE, state |-> TRUE, val |-> v] : v \in {<<>>, <<-50>>, <<20>>, <<95>>, <<150>>}}

\* the body of the loop over writableIds up to the write (lines 401-455), for
\* the metadata and the current state the two fetches gave: the iteration
\* continues without a write, throws into the catch (kind is the call that
\* rejected, which e.message tells), or writes a value
TargetOutcome(intent, fetched, read) ==
    LET obj     == fetched.obj
        temp    == Includes(obj.role, <<"t","e","m","p","e","r","a","t","u","r","e">>)
        step    == IF temp THEN 1 ELSE 10
        max     == IF obj.max # <<>> THEN obj.max[1] ELSE IF temp THEN 30 ELSE 100
        min     == IF obj.min # <<>> THEN obj.min[1] ELSE 0
        current == IF read.val = <<>> \/ read.val = <<0>> THEN 0 ELSE read.val[1]
        write(value) == [kind |-> "write", value |-> value]
        continue == [kind |-> "continue", value |-> JsBool(FALSE)]
        throw(call) == [kind |-> call, value |-> JsBool(FALSE)]
    IN  IF ~fetched.ok THEN throw("getForeignObject")
        ELSE IF obj.id = Undefined THEN continue
        ELSE CASE intent.action = "set_on" ->
                  IF obj.type = "boolean" THEN write(JsBool(TRUE))
                  ELSE IF obj.type = "number"
                       THEN write(JsNum(IF Includes(obj.role, <<"l","e","v","e","l">>) \/ Includes(obj.role, <<"d","i","m","m","e","r">>)
                                        THEN <<100, 0>> ELSE <<1, 0>>))
                  ELSE write(JsBool(TRUE))
             [] intent.action = "set_off" ->
                  IF obj.type = "boolean" THEN write(JsBool(FALSE))
                  ELSE IF obj.type = "number" THEN write(JsNum(<<0, 0>>))
                  ELSE write(JsBool(FALSE))
             [] intent.action = "set_value" ->
                  IF intent.value = NullNum THEN continue
                  ELSE IF obj.type = "number" THEN write(JsNum(intent.value))
                  ELSE IF obj.type = "boolean" THEN write(JsBool(intent.value[1] # 0))
                  ELSE write(JsNum(intent.value))
             [] intent.action = "increase" ->
                  IF ~read.ok THEN throw("getForeignState")
                  ELSE IF ~read.state \/ obj.type # "number" THEN continue
                  ELSE write(JsNum(<<Min({current + step, max}), 0>>))
             [] intent.action = "decrease" ->
                  IF ~read.ok THEN throw("getForeignState")
                  ELSE IF ~read.state \/ obj.type # "number" THEN continue
                  ELSE write(JsNum(<<Max({current - step, min}), 0>>))
             [] OTHER -> continue

\* the intents handed to the fast path: what parse() can return (null, a
\* query, an intent below the 0.6 threshold) and intents over every kind of
\* target: boolean, dimmer, temperature, read-only, bounded, string, a device
\* without a type, an id without an object, and lists of two
FastIntents ==
    LET targets == {<<Str.st_spiegel>>, <<Str.st_decke>>, <<Str.st_temp>>, <<Str.st_lock>>,
                    <<Str.venti>>, <<Str.fan>>, <<Str.dev_spiegel>>, <<Str.st_wand>>,
                    <<Str.st_spiegel, Str.st_decke>>, <<Str.st_lock, Str.venti>>,
                    <<Str.st_wand, Str.fan>>, <<Str.st_decke, Str.st_decke>>, <<>>}
        Intent(action, value, confidence, ids) ==
            [NullIntent EXCEPT !.isNull = FALSE, !.action = action, !.room = Str.Bad,
                               !.value = value, !.confidence = confidence, !.stateIds = ids]
    IN  {NullIntent}
        \cup {Intent(action, NullNum, One, ids) : action \in WriteActions \cup {"query"}, ids \in targets}
        \cup {Intent("set_value", value, One, ids) : value \in {<<0, 0>>, <<50, 0>>}, ids \in targets}
        \cup {Intent("set_on", NullNum, <<11, 0>>, <<Str.st_spiegel>>)}

\* _processText lines 250-262: the intent parse() returned takes the fast path
\* when it is confident enough, is no query and the resolver has rooms;
\* _executeFastIntent starts with getWritableStates(intent.stateIds).
\* Otherwise _executeFastIntent is not called (exec.pc stays "idle", intent
\* is the local of _processText) and the text goes to the LLM pipeline
FastStart_queryFast(intent) ==
    /\ ptPc = "idle"
    /\ IF /\ ~intent.isNull
          /\ ~FLess(intent.confidence, <<12, 0>>)
          /\ Len(rooms) > 0
       THEN /\ ptPc' = "fast"
            /\ exec' = IF intent.stateIds = <<>>
                       THEN [NoExec EXCEPT !.pc = "returned", !.intent = intent, !.result = "null"]
                       ELSE [NoExec EXCEPT !.pc = "writable", !.intent = intent, !.k = 1]
       ELSE /\ ptPc' = "llm"
            /\ exec' = [NoExec EXCEPT !.intent = intent]
    /\ UNCHANGED <<store, resolverVars, findVars, loadVars, parseVars, confVars, pureVars, writes, lastResponse, race, llm>>

FastStart(intent) ==
    /\ ptPc = "idle"
    /\ IF /\ ~intent.isNull
          /\ ~FLess(intent.confidence, <<12, 0>>)
          /\ intent.action # "query"
          /\ Len(rooms) > 0
       THEN /\ ptPc' = "fast"
            /\ exec' = IF intent.stateIds = <<>>
                       THEN [NoExec EXCEPT !.pc = "returned", !.intent = intent, !.result = "null"]
                       ELSE [NoExec EXCEPT !.pc = "writable", !.intent = intent, !.k = 1]
       ELSE /\ ptPc' = "llm"
            /\ exec' = [NoExec EXCEPT !.intent = intent]
    /\ UNCHANGED <<store, resolverVars, findVars, loadVars, parseVars, confVars, pureVars, writes, lastResponse, race, llm>>

\* getWritableStates keeping every id whose object exists, read-only or not
getWritableStates_anyObject(writable, id, fetched) ==
    IF fetched.ok /\ fetched.obj.id # Undefined
    THEN Append(writable, id)
    ELSE writable

\* getWritableStates putting each writable id in front of the ones found before
getWritableStates_unshift(writable, id, fetched) ==
    IF fetched.ok /\ fetched.obj.id # Undefined /\ fetched.obj.write
    THEN <<id>> \o writable
    ELSE writable

\* EnumResolver.getWritableStates, the body of its loop for one id and what
\* the fetch of its object gave: the id is pushed when an object came back
\* whose common.write is not false; a rejected fetch is swallowed
getWritableStates(writable, id, fetched) ==
    IF fetched.ok /\ fetched.obj.id # Undefined /\ fetched.obj.write
    THEN Append(writable, id)
    ELSE writable

\* _executeFastIntent awaiting getWritableStates(intent.stateIds), one id of
\* its loop; after the last id an empty list ends _executeFastIntent with
\* null (lines 394-398)
WritableStep ==
    /\ ptPc = "fast"
    /\ exec.pc = "writable"
    /\ \E fetched \in FetchOutcomes(exec.intent.stateIds[exec.k]) :
         LET id == exec.intent.stateIds[exec.k]
             next(writable) ==
                 IF exec.k < Len(exec.intent.stateIds)
                 THEN [exec EXCEPT !.k = exec.k + 1, !.writableIds = writable,
                                   !.seen = Append(exec.seen, [stateId |-> id, fetched |-> fetched])]
                 ELSE [exec EXCEPT !.pc = IF writable = <<>> THEN "returned" ELSE "loop",
                                   !.result = IF writable = <<>> THEN "null" ELSE "none",
                                   !.i = IF writable = <<>> THEN 0 ELSE 1,
                                   !.writableIds = writable,
                                   !.seen = Append(exec.seen, [stateId |-> id, fetched |-> fetched])]
         IN  exec' = next(getWritableStates(exec.writableIds, id, fetched))
    /\ UNCHANGED <<store, resolverVars, findVars, loadVars, parseVars, confVars, pureVars, ptPc, writes, lastResponse, race, llm>>

\* _executeFastIntent, one iteration of the loop over writableIds (lines
\* 400-463): the metadata is fetched again, the value is worked out, the write
\* is issued and the target is recorded as executed; whatever throws inside
\* the iteration records the target as denied. After the last target an empty
\* executed list ends with null (line 467)
TargetStep ==
    /\ ptPc = "fast"
    /\ exec.pc = "loop"
    /\ \E fetched \in FetchOutcomes(exec.writableIds[exec.i]), read \in ReadOutcomes, wrote \in BOOLEAN :
         LET id == exec.writableIds[exec.i]
             step(out) ==
                 LET executed == IF out.kind = "write" /\ wrote
                                 THEN Append(exec.executed, [stateId |-> id, name |-> _getName(fetched.obj),
                                                             value |-> out.value])
                                 ELSE exec.executed
                     denied   == IF (out.kind = "write" /\ wrote) \/ out.kind = "continue"
                                 THEN exec.denied
                                 ELSE Append(exec.denied,
                                             [stateId |-> id,
                                              reason |-> IF out.kind = "write" THEN "setForeignState"
                                                         ELSE out.kind])
                     last     == exec.i = Len(exec.writableIds)
                 IN  /\ writes' = IF out.kind = "write"
                                  THEN Append(writes, [stateId |-> id, value |-> out.value, ok |-> wrote])
                                  ELSE writes
                     /\ exec' = [exec EXCEPT !.i = IF last THEN exec.i ELSE exec.i + 1,
                                             !.pc = IF ~last THEN "loop"
                                                    ELSE IF executed = <<>> THEN "returned" ELSE "respond",
                                             !.result = IF last /\ executed = <<>> THEN "null" ELSE "none",
                                             !.executed = executed,
                                             !.denied = denied]
         IN  step(TargetOutcome(exec.intent, fetched, read))
    /\ UNCHANGED <<store, resolverVars, findVars, loadVars, parseVars, confVars, pureVars, ptPc, lastResponse, race, llm>>

\* _executeFastIntent lines 469-481: the response is written to lastResponse
\* and the result object is returned; the write is awaited outside any try, so
\* when it rejects _executeFastIntent rejects
RespondStep ==
    /\ ptPc = "fast"
    /\ exec.pc = "respond"
    /\ \E wrote \in BOOLEAN :
         IF wrote
         THEN /\ lastResponse' = TRUE
              /\ exec' = [exec EXCEPT !.pc = "returned", !.result = "result"]
         ELSE /\ exec' = [exec EXCEPT !.pc = "rejected"]
              /\ UNCHANGED lastResponse
    /\ UNCHANGED <<store, resolverVars, findVars, loadVars, parseVars, confVars, pureVars, ptPc, writes, race, llm>>

\* _processText returning whatever _executeFastIntent resolved with, null too
FastReturn_returnsNull ==
    /\ ptPc = "fast"
    /\ exec.pc \in {"returned", "rejected"}
    /\ ptPc' = IF exec.pc = "rejected" THEN "rejected" ELSE "returned"
    /\ UNCHANGED <<store, resolverVars, findVars, loadVars, parseVars, confVars, pureVars, exec, writes, lastResponse, race, llm>>

\* _processText lines 263-276: a result of _executeFastIntent is returned; on
\* null the request goes on to the LLM steps; a rejection leaves _processText
FastReturn ==
    /\ ptPc = "fast"
    /\ exec.pc \in {"returned", "rejected"}
    /\ ptPc' = IF exec.pc = "rejected" THEN "rejected"
               ELSE IF exec.result = "result" THEN "returned" ELSE "llm"
    /\ UNCHANGED <<store, resolverVars, findVars, loadVars, parseVars, confVars, pureVars, exec, writes, lastResponse, race, llm>>

\* the resolver has loaded its maps, or has none (loadEnums has not finished
\* or has failed)
InitExec ==
    /\ store \in StoreVersions
    /\ \E loaded \in BOOLEAN :
         LET fill(enums, root) == IF loaded THEN FillEnum(enums, 1, root, <<>>, <<>>)
                                  ELSE [map |-> <<>>, rev |-> <<>>]
         IN  /\ rooms = fill(store.rooms, Str.enum_rooms).map
             /\ stateToRooms = fill(store.rooms, Str.enum_rooms).rev
             /\ functions = fill(store.functions, Str.enum_functions).map
             /\ stateToFunctions = fill(store.functions, Str.enum_functions).rev
    /\ fsArgs = [room |-> Undefined, function |-> Undefined]
    /\ fsPc = "idle"
    /\ fsResult = <<>>
    /\ LoadIdle
    /\ ParseIdle
    /\ ConfIdle
    /\ ExecIdle
    /\ PureIdle
    /\ RaceIdle
    /\ LlmIdle

NextExec ==
    \/ \E intent \in FastIntents : FastStart(intent)
    \/ WritableStep
    \/ TargetStep
    \/ RespondStep
    \/ FastReturn

SpecExec == InitExec /\ [][NextExec]_vars

----------------------------------------------------------------------------
(* Claims about the fast path (SpecParse, SpecExec) *)

\* C14: parse() has no side effects besides logging: no step of parse()
\* issues a state write (neither to a target nor to lastResponse), changes the
\* object store, or changes the resolver's rooms, functions and reverse-index
\* maps, for every input.
C14_ParseNoSideEffects ==
    [][parseVars' # parseVars =>
          UNCHANGED <<store, rooms, functions, stateToRooms, stateToFunctions, writes, lastResponse>>]_vars

\* parse() has run through searchByDeviceName and filterByDeviceName and has
\* returned an intent with states
C14_Witness ==
    /\ parsePc = "returned"
    /\ parseLocals.searched
    /\ parseLocals.direct = NoDirect
    /\ ~parseIntent.isNull
    /\ parseIntent.stateIds # <<>>

\* the ids of which getWritableStates fetched an object that did not have
\* write = false
SeenWritable ==
    {s.stateId : s \in {e \in Range(exec.seen) : e.fetched.ok /\ e.fetched.obj.id # Undefined
                                                  /\ e.fetched.obj.write}}

\* C15: every state write issued by _executeFastIntent(intent) targets an id
\* that is in intent.stateIds and whose object existed and did not have
\* write = false when getWritableStates fetched it; no other id is written.
C15_WritesInsideWritableSet ==
    \A n \in 1..Len(writes) :
        /\ writes[n].stateId \in Range(exec.intent.stateIds)
        /\ writes[n].stateId \in SeenWritable

\* an intent with a read-only and a writable target has run to its end: the
\* writable one was written, the read-only one was not
C15_Witness ==
    /\ exec.pc = "returned"
    /\ exec.intent.stateIds = <<Str.st_lock, Str.venti>>
    /\ exec.seen[1].fetched.obj.id = Str.st_lock
    /\ writes # <<>>

\* C16: increase/decrease clamping: the value the fast path writes to a
\* numeric target on increase or decrease is never below the target's min
\* (default 0) and never above its max (default 30 for temperature-like
\* roles, 100 otherwise), for every current value.
C16_ClampedIntoRange ==
    exec.intent.action \in {"increase", "decrease"} =>
        \A n \in 1..Len(writes) :
            LET within(obj, value) ==
                    /\ value >= (IF obj.min # <<>> THEN obj.min[1] ELSE 0)
                    /\ value <= (IF obj.max # <<>> THEN obj.max[1]
                                 ELSE IF Includes(obj.role, <<"t","e","m","p","e","r","a","t","u","r","e">>) THEN 30 ELSE 100)
            IN  within(getForeignObject(Objects, writes[n].stateId), writes[n].value.n[1])

\* C17: set_on/set_off mutation rule: set_on writes true to a boolean target
\* and 100 (role contains level or dimmer) or 1 (otherwise) to a numeric one;
\* set_off writes false to a boolean target and 0 to a numeric one; a target
\* of any other type gets no write.
C17_SetOnOffRule ==
    exec.intent.action \in {"set_on", "set_off"} =>
        \A n \in 1..Len(writes) :
            LET rule(on, obj, value) ==
                    \/ obj.type = "boolean" /\ value = JsBool(on)
                    \/ /\ obj.type = "number"
                       /\ value = JsNum(IF ~on THEN <<0, 0>>
                                        ELSE IF Includes(obj.role, <<"l","e","v","e","l">>) \/ Includes(obj.role, <<"d","i","m","m","e","r">>)
                                             THEN <<100, 0>> ELSE <<1, 0>>)
            IN  rule(exec.intent.action = "set_on",
                     getForeignObject(Objects, writes[n].stateId), writes[n].value)

\* C18: no empty success: _executeFastIntent returns a result object only if
\* at least one state write completed (its executed list is non-empty); when
\* no state is writable or every target is skipped or fails it returns null
\* and sets no lastResponse, and _processText goes on to the LLM steps.
C18_NoEmptySuccess ==
    /\ exec.result = "result" =>
           /\ exec.executed # <<>>
           /\ \E n \in 1..Len(writes) : writes[n].ok
    /\ lastResponse => exec.executed # <<>>
    /\ (exec.pc = "returned" /\ exec.executed = <<>>) => (exec.result = "null" /\ ~lastResponse)
    /\ ptPc = "returned" => exec.result = "result"
    /\ (exec.result = "null" /\ ptPc # "fast") => ptPc = "llm"

\* every write of a two-target intent failed: _executeFastIntent returned
\* null and _processText went on to the LLM
C18_Witness ==
    /\ ptPc = "llm"
    /\ exec.result = "null"
    /\ Len(writes) = 2
    /\ \A n \in 1..Len(writes) : ~writes[n].ok
    /\ Len(exec.denied) = 2

\* C19: skipped targets: a target whose metadata cannot be fetched, or whose
\* action is inapplicable to its type (increase/decrease on a non-numeric
\* state, set_value with no parsed value), gets no write and appears in
\* neither the executed nor the denied list.
C19_SkippedTargets ==
    LET type(id) == getForeignObject(Objects, id).type
        inapplicable(id) ==
            \/ exec.intent.action \in {"increase", "decrease"} /\ type(id) # "number"
            \/ exec.intent.action = "set_value" /\ exec.intent.value = NullNum
    IN  /\ \A n \in 1..Len(writes) : ~inapplicable(writes[n].stateId)
        /\ \A n \in 1..Len(exec.executed) : ~inapplicable(exec.executed[n].stateId)
        /\ \A n \in 1..Len(exec.denied) :
               /\ exec.denied[n].reason # "getForeignObject"
               /\ ~inapplicable(exec.denied[n].stateId)

\* C20: external-store failures never propagate: whichever store call
\* rejects, _executeFastIntent still resolves and never rejects, and a failed
\* write of one target does not stop the loop over the remaining targets.
C20_FailuresNeverPropagate ==
    /\ exec.pc # "rejected"
    /\ ptPc # "rejected"
    /\ (exec.pc \in {"respond", "returned"} /\ exec.writableIds # <<>>) =>
           exec.i = Len(exec.writableIds)

----------------------------------------------------------------------------
(* Claims about getWritableStates, _extractValue and _detectAction *)

\* C21: getWritableStates(stateIds) returns, in input order, exactly those
\* input ids whose object could be fetched and is not flagged write = false;
\* an id whose object is absent or whose fetch fails is left out, and the
\* call does not throw.
C21_WritableStatesFilter ==
    (exec.pc \notin {"idle", "writable"} /\ exec.intent.stateIds # <<>>) =>
        LET kept(e) == e.fetched.ok /\ e.fetched.obj.id # Undefined /\ e.fetched.obj.write
            ids(entries) == [n \in 1..Len(entries) |-> entries[n].stateId]
        IN  /\ ids(exec.seen) = exec.intent.stateIds
            /\ exec.writableIds = ids(SelectSeq(exec.seen, kept))

\* getWritableStates has returned for two ids: the fetch of the first one
\* failed, the second one is writable
C21_Witness ==
    /\ exec.pc = "loop"
    /\ exec.intent.stateIds = <<Str.st_spiegel, Str.st_decke>>
    /\ ~exec.seen[1].fetched.ok
    /\ exec.writableIds = <<Str.st_decke>>

----------------------------------------------------------------------------
(* _extractValue and _detectAction on their own: specification SpecPure *)

\* the arguments drawn for the two functions. Value phrases are a value verb,
\* a number and an optional unit marker; number and marker say what was put
\* into the text. Action phrases hold, in rule order or in reverse, at most
\* one phrase for each rule of _detectAction; rules says which
PureArgs ==
    LET join(a, b) == IF a = <<>> THEN b ELSE IF b = <<>> THEN a ELSE a \o <<" ">> \o b
        verbs   == {<<"a","u","f">>, <<"s","e","t","z","e">>, <<"s","t","e","l","l","e"," ","l","i","c","h","t">>}
        numbers == {[text |-> <<"0">>, number |-> <<0, 0>>], [text |-> <<"4">>, number |-> <<4, 0>>],
                    [text |-> <<"4",",","9">>, number |-> <<49, 1>>], [text |-> <<"5">>, number |-> <<5, 0>>],
                    [text |-> <<"2","2">>, number |-> <<22, 0>>], [text |-> <<"3","0">>, number |-> <<30, 0>>],
                    [text |-> <<"3","0",",","5">>, number |-> <<305, 1>>], [text |-> <<"3","0",".","9">>, number |-> <<309, 1>>],
                    [text |-> <<"3","1">>, number |-> <<31, 0>>], [text |-> <<"5","0">>, number |-> <<50, 0>>],
                    [text |-> <<"1","0","0">>, number |-> <<100, 0>>], [text |-> <<"1","0","0",".","5">>, number |-> <<1005, 1>>],
                    [text |-> <<"1","0","1">>, number |-> <<101, 0>>], [text |-> <<"3","0","0">>, number |-> <<300, 0>>]}
        markers == {[text |-> <<>>, marker |-> "null"],
                    [text |-> <<"%">>, marker |-> "percent"], [text |-> <<" ","p","r","o","z","e","n","t">>, marker |-> "percent"],
                    [text |-> <<"deg">>, marker |-> "degree"], [text |-> <<" ","g","r","a","d">>, marker |-> "degree"]}
        phrases == [set_value |-> {<<>>, <<"a","u","f"," ","2","2">>, <<"5","0"," ","p","r","o","z","e","n","t">>},
                    increase  |-> {<<>>, <<"h","e","l","l","e","r">>, <<"m","e","h","r">>},
                    decrease  |-> {<<>>, <<"d","u","n","k","l","e","r">>, <<"d","i","m","m","e","n">>},
                    set_on    |-> {<<>>, <<"e","i","n","s","c","h","a","l","t","e","n">>, <<"l","i","c","h","t"," ","e","i","n">>},
                    set_off   |-> {<<>>, <<"a","u","s","s","c","h","a","l","t","e","n">>, <<"a","l","l","e","s"," ","a","u","s">>},
                    query     |-> {<<>>, <<"s","t","a","t","u","s">>, <<"w","a","s","?">>}]
        rules(v, i, d, on, off, q) ==
            {r \in {"set_value", "increase", "decrease", "set_on", "set_off", "query"} :
                \/ r = "set_value" /\ v # <<>>
                \/ r = "increase" /\ i # <<>>
                \/ r = "decrease" /\ d # <<>>
                \/ r = "set_on" /\ on # <<>>
                \/ r = "set_off" /\ off # <<>>
                \/ r = "query" /\ q # <<>>}
    IN  {[kind |-> "value", text |-> join(v, n.text) \o m.text, number |-> n.number,
          marker |-> m.marker, rules |-> {"set_value"}, objects |-> <<>>, ids |-> <<>>] :
             v \in verbs, n \in numbers, m \in markers}
        \cup {[kind |-> "action",
               text |-> IF forward
                        THEN join(join(join(join(join(v, i), d), on), off), q)
                        ELSE join(join(join(join(join(q, off), on), d), i), v),
               number |-> NullNum, marker |-> "null", rules |-> rules(v, i, d, on, off, q),
               objects |-> <<>>, ids |-> <<>>] :
                  v \in phrases.set_value, i \in phrases.increase, d \in phrases.decrease,
                  on \in phrases.set_on, off \in phrases.set_off, q \in phrases.query,
                  forward \in BOOLEAN}

\* parse() line 47 followed by _extractValue(lower) (line 123)
ExtractValueCall ==
    /\ pfPc = "ready"
    /\ pfPc' = "_extractValue"
    /\ pfResult' = [pfResult EXCEPT !.value = _extractValue(Lower(pfArgs.text))]
    /\ UNCHANGED <<store, resolverVars, findVars, loadVars, parseVars, confVars, execVars, pfArgs, race, llm>>

\* parse() line 47 followed by _detectAction(lower) (line 50)
DetectActionCall ==
    /\ pfPc = "ready"
    /\ pfPc' = "_detectAction"
    /\ pfResult' = [pfResult EXCEPT !.action = _detectAction(Lower(pfArgs.text))]
    /\ UNCHANGED <<store, resolverVars, findVars, loadVars, parseVars, confVars, execVars, pfArgs, race, llm>>

\* the arguments drawn for searchByDeviceName and filterByDeviceName: up to
\* three user-defined states out of seven, and a text. The first two states
\* have names of two words and share one, Lampe is part of two longer names,
\* the Venti names differ in length by 2, 3 and 5 characters
DeviceArgs ==
    LET pool == <<[id |-> <<"0","_","u","s","e","r","d","a","t","a",".","0",".","a">>, name |-> <<"L","i","c","h","t"," ","W","o","h","n","z","i","m","m","e","r","l","a","m","p","e">>],
                  [id |-> <<"0","_","u","s","e","r","d","a","t","a",".","0",".","b">>, name |-> <<"L","a","m","p","e"," ","L","i","c","h","t">>],
                  [id |-> <<"0","_","u","s","e","r","d","a","t","a",".","0",".","c">>, name |-> <<"S","t","e","h","l","a","m","p","e">>],
                  [id |-> <<"0","_","u","s","e","r","d","a","t","a",".","0",".","d">>, name |-> <<"V","e","n","t","i","l","a","t","o","r">>],
                  [id |-> <<"0","_","u","s","e","r","d","a","t","a",".","0",".","e">>, name |-> <<"V","e","n","t","i">>],
                  [id |-> <<"0","_","u","s","e","r","d","a","t","a",".","0",".","f">>, name |-> <<"V","e","n","t","i","l","a">>],
                  [id |-> <<"0","_","u","s","e","r","d","a","t","a",".","0",".","g">>, name |-> <<"V","e","n","t","i","l","a","t">>]>>
        texts == {<<"w","o","h","n","z","i","m","m","e","r","l","a","m","p","e"," ","a","n"," ","l","i","c","h","t">>, <<"L","i","c","h","t"," ","W","o","h","n","z","i","m","m","e","r","l","a","m","p","e"," ","a","n">>, <<"s","t","e","h","l","a","m","p","e"," ","a","n">>,
                  <<"v","e","n","t","i","l","a","t","o","r"," ","a","n">>, <<"s","t","e","h","l","a","m","p","e"," ","v","e","n","t","i","l","a","t","o","r">>, <<"l","i","c","h","t"," ","l","a","m","p","e"," ","a","n">>,
                  <<"h","a","l","l","o">>}
        world(picked) ==
            LET in(k) == k \in picked
                ks == SelectSeq(<<1, 2, 3, 4, 5, 6, 7>>, in)
            IN  [objects |-> [n \in 1..Len(ks) |->
                                 [id |-> pool[ks[n]].id, name |-> NameStr(pool[ks[n]].name),
                                  type |-> "boolean", role |-> <<>>, write |-> TRUE,
                                  min |-> <<>>, max |-> <<>>]],
                 ids |-> [n \in 1..Len(ks) |-> pool[ks[n]].id]]
    IN  {[kind |-> "device", text |-> text, number |-> NullNum, marker |-> "null", rules |-> {},
          objects |-> world(picked).objects, ids |-> world(picked).ids] :
             text \in texts, picked \in {p \in SUBSET (1..7) : Cardinality(p) <= MaxDevices}}

\* parse() line 58: searchByDeviceName(lower), the candidates being the
\* user-defined states
SearchByDeviceNameCall ==
    /\ pfPc = "ready"
    /\ pfPc' = "searchByDeviceName"
    /\ pfResult' = [pfResult EXCEPT !.direct = searchByDeviceName(pfArgs.objects, pfArgs.ids, <<>>,
                                                                 Lower(pfArgs.text))]
    /\ UNCHANGED <<store, resolverVars, findVars, loadVars, parseVars, confVars, execVars, pfArgs, race, llm>>

\* parse() line 108: filterByDeviceName(stateIds, lower)
FilterByDeviceNameCall ==
    /\ pfPc = "ready"
    /\ pfPc' = "filterByDeviceName"
    /\ pfResult' = [pfResult EXCEPT !.filtered = filterByDeviceName(pfArgs.objects, pfArgs.ids,
                                                                   Lower(pfArgs.text))]
    /\ UNCHANGED <<store, resolverVars, findVars, loadVars, parseVars, confVars, execVars, pfArgs, race, llm>>

InitPure ==
    /\ store = StoreA
    /\ rooms = <<>> /\ functions = <<>>
    /\ stateToRooms = <<>> /\ stateToFunctions = <<>>
    /\ fsArgs = [room |-> Undefined, function |-> Undefined]
    /\ fsPc = "idle"
    /\ fsResult = <<>>
    /\ LoadIdle
    /\ ParseIdle
    /\ ConfIdle
    /\ ExecIdle
    /\ pfArgs \in PureArgs \cup DeviceArgs
    /\ pfPc = "ready"
    /\ pfResult = NoPureResult
    /\ RaceIdle
    /\ LlmIdle

NextPure ==
    \/ ExtractValueCall
    \/ DetectActionCall
    \/ SearchByDeviceNameCall
    \/ FilterByDeviceNameCall

SpecPure == InitPure /\ [][NextPure]_vars

\* C22: value/unit heuristic: for a text without a percent or degree marker
\* and a plain number n after auf/setze/stelle, _extractValue gives n with
\* unit degree for 5 <= n <= 30, unit percent for 31 <= n <= 100 and no unit
\* otherwise; with a percent marker it gives percent and with a degree marker
\* it gives degree, whatever the number.
C22_UnitHeuristic ==
    (pfPc = "_extractValue" /\ pfArgs.kind = "value") =>
        LET geq(val, x) == val[1] >= x * Pow10(val[2])
            leq(val, x) == val[1] <= x * Pow10(val[2])
            rule(n, got) ==
                /\ got.present
                /\ got.value = n
                /\ got.unit = CASE pfArgs.marker = "percent" -> "percent"
                                [] pfArgs.marker = "degree" -> "degree"
                                [] OTHER -> IF geq(n, 5) /\ leq(n, 30) THEN "degree"
                                            ELSE IF geq(n, 31) /\ leq(n, 100) THEN "percent"
                                            ELSE "null"
            IN  rule(pfArgs.number, pfResult.value)

\* C22 as the code has it: the percent range is 30 < n <= 100, so a number
\* between 30 and 31 gives percent; every other part as above.
C22_UnitHeuristicExact ==
    (pfPc = "_extractValue" /\ pfArgs.kind = "value") =>
        LET geq(val, x) == val[1] >= x * Pow10(val[2])
            leq(val, x) == val[1] <= x * Pow10(val[2])
            rule(n, got) ==
                /\ got.present
                /\ got.value = n
                /\ got.unit = CASE pfArgs.marker = "percent" -> "percent"
                                [] pfArgs.marker = "degree" -> "degree"
                                [] OTHER -> IF geq(n, 5) /\ leq(n, 30) THEN "degree"
                                            ELSE IF ~leq(n, 30) /\ leq(n, 100) THEN "percent"
                                            ELSE "null"
            IN  rule(pfArgs.number, pfResult.value)

\* _extractValue has returned for a plain 30,5 after a value verb
C22_Witness ==
    /\ pfPc = "_extractValue"
    /\ pfArgs.number = <<305, 1>>
    /\ pfArgs.marker = "null"
    /\ pfResult.value.unit = "percent"

\* C23: action detection is an ordered first-match-wins cascade:
\* _detectAction gives the action of the first rule that matches in the
\* order set_value, increase, decrease, set_on, set_off, query, so a text
\* with a value-setting pattern gives set_value whatever else it holds, and a
\* text that matches no rule gives null.
C23_FirstMatchWins ==
    (pfPc = "_detectAction" /\ pfArgs.kind \in {"value", "action"}) =>
        LET order == <<"set_value", "increase", "decrease", "set_on", "set_off", "query">>
            hits(rules) == {k \in 1..Len(order) : order[k] \in rules}
            first(rules) == IF hits(rules) = {} THEN NoAction ELSE order[Min(hits(rules))]
        IN  pfResult.action = first(pfArgs.rules)

\* _detectAction has returned increase for a text that names a query, a
\* switch-off, a switch-on, a decrease and an increase, in that order
C23_Witness ==
    /\ pfPc = "_detectAction"
    /\ pfArgs.rules = {"increase", "decrease", "set_on", "set_off", "query"}
    /\ pfArgs.text[1] \in {"s", "w"}
    /\ pfResult.action = "increase"

\* C24: searchByDeviceName returns a state only when it is unambiguous: the
\* one candidate that has a significant name (at least 4 characters, not a
\* generic word) in the text; among several such candidates the one with the
\* longest name occurring in the text, if that name is more than 2 characters
\* longer than the longest such name of every other candidate; otherwise null.
C24_LongestMatchingName ==
    (pfPc = "searchByDeviceName" /\ pfArgs.kind = "device") =>
        LET lower == Lower(pfArgs.text)
            names(id) == _collectHierarchyNames(pfArgs.objects, id)
            matching(id) == {k \in 1..Len(names(id)) : Len(names(id)[k]) >= 4 /\ Includes(lower, names(id)[k])}
            cands == {id \in Range(pfArgs.ids) : matching(id) # {}}
            length(id) == Max({Len(names(id)[k]) : k \in matching(id)})
            top == {id \in cands : \A o \in cands : length(o) <= length(id)}
            expect(got) ==
                IF Cardinality(cands) = 1
                THEN /\ got.stateId \in cands
                     /\ \E k \in matching(got.stateId) : got.deviceName = names(got.stateId)[k]
                ELSE IF /\ Cardinality(cands) > 1
                        /\ Cardinality(top) = 1
                        /\ \A o \in cands \ top : \A id \in top : length(id) > length(o) + 2
                     THEN /\ got.stateId \in top
                          /\ Len(got.deviceName) = length(got.stateId)
                ELSE got = NoDirect
        IN  expect(pfResult.direct)

\* C24 as the code has it: a candidate counts with the first of its names, in
\* the order they were collected, that has at least 4 characters and occurs
\* in the text; the lengths compared are those of these first names.
C24_FirstMatchingName ==
    (pfPc = "searchByDeviceName" /\ pfArgs.kind = "device") =>
        LET lower == Lower(pfArgs.text)
            names(id) == _collectHierarchyNames(pfArgs.objects, id)
            matching(id) == {k \in 1..Len(names(id)) : Len(names(id)[k]) >= 4 /\ Includes(lower, names(id)[k])}
            cands == {id \in Range(pfArgs.ids) : matching(id) # {}}
            length(id) == Len(names(id)[Min(matching(id))])
            top == {id \in cands : \A o \in cands : length(o) <= length(id)}
            expect(got) ==
                IF Cardinality(cands) = 1
                THEN /\ got.stateId \in cands
                     /\ \E k \in matching(got.stateId) : got.deviceName = names(got.stateId)[k]
                ELSE IF /\ Cardinality(cands) > 1
                        /\ Cardinality(top) = 1
                        /\ \A o \in cands \ top : \A id \in top : length(id) > length(o) + 2
                     THEN /\ got.stateId \in top
                          /\ Len(got.deviceName) = length(got.stateId)
                ELSE got = NoDirect
        IN  expect(pfResult.direct)

\* searchByDeviceName has returned null although one candidate has a name in
\* the text that is more than 2 characters longer than every name of the
\* other candidate: its first matching name is no longer than the other's
C24_Witness ==
    /\ pfPc = "searchByDeviceName"
    /\ pfArgs.kind = "device"
    /\ Len(pfArgs.ids) = 2
    /\ pfArgs.text[1] = "w"
    /\ Len(_collectHierarchyNames(pfArgs.objects, pfArgs.ids[1])) = 3
    /\ Len(_collectHierarchyNames(pfArgs.objects, pfArgs.ids[2])) = 3
    /\ Includes(Lower(pfArgs.text), _collectHierarchyNames(pfArgs.objects, pfArgs.ids[2])[2])
    /\ pfResult.direct = NoDirect

----------------------------------------------------------------------------
(* Reloads that overlap: specification SpecOverlap *)

\* the load() calls of two enum change notifications in a row; each handler
\* calls load() once
OverlapProcs == {1, 2}

\* the objectChange handler (or a reloadEnums message) calls load() whether
\* or not another load() is suspended at an await: rooms and _stateToRooms
\* are cleared, the room fetch is issued
ReloadStart(p) ==
    /\ loadPc[p] = "idle"
    /\ loadPre' = [loadPre EXCEPT ![p] = Snapshot]
    /\ loadSeen' = [loadSeen EXCEPT ![p] = {}]
    /\ loadFetched' = [loadFetched EXCEPT ![p] = NoFetch]
    /\ rooms' = <<>>
    /\ stateToRooms' = <<>>
    /\ loadPc' = [loadPc EXCEPT ![p] = "awaitRooms"]
    /\ UNCHANGED <<store, functions, stateToFunctions, findVars, parseVars, confVars, pureVars,
                   execVars, ready, lastLoads, race, llm>>

\* a loaded resolver, no load() running
InitOverlap ==
    /\ store \in StoreVersions
    /\ rooms = FillEnum(store.rooms, 1, Str.enum_rooms, <<>>, <<>>).map
    /\ stateToRooms = FillEnum(store.rooms, 1, Str.enum_rooms, <<>>, <<>>).rev
    /\ functions = FillEnum(store.functions, 1, Str.enum_functions, <<>>, <<>>).map
    /\ stateToFunctions = FillEnum(store.functions, 1, Str.enum_functions, <<>>, <<>>).rev
    /\ fsArgs = [room |-> Undefined, function |-> Undefined]
    /\ fsPc = "idle"
    /\ fsResult = <<>>
    /\ ready = TRUE
    /\ loadPc = [p \in OverlapProcs |-> "idle"]
    /\ loadFetched = [p \in OverlapProcs |-> NoFetch]
    /\ loadPre = [p \in OverlapProcs |-> EmptySnapshot]
    /\ loadSeen = [p \in OverlapProcs |-> {}]
    /\ lastLoads = <<NoLoad, NoLoad>>
    /\ ParseIdle
    /\ ConfIdle
    /\ ExecIdle
    /\ PureIdle
    /\ RaceIdle
    /\ LlmIdle

NextOverlap ==
    \/ StoreChange
    \/ \E p \in OverlapProcs : ReloadStart(p)
    \/ \E p \in OverlapProcs : LoadRoomsFetched(p)
    \/ \E p \in OverlapProcs : LoadRoomsFailed(p)
    \/ \E p \in OverlapProcs : LoadFuncsFetched(p)
    \/ \E p \in OverlapProcs : LoadFuncsFailed(p)

SpecOverlap == InitOverlap /\ [][NextOverlap]_vars

\* C26: overlapping reloads: when two load() calls, the second started while
\* the first was awaiting the store, have both finished and the store
\* answered all their fetches with its latest contents, the rooms and
\* functions maps and the reverse indexes are those a single load() of these
\* contents builds: no removed group remains and no reverse-index entry
\* lists a name twice.
C26_OverlappingReloads ==
    (\A p \in OverlapProcs :
        /\ loadPc[p] = "resolved"
        /\ loadFetched[p].rooms = [ok |-> TRUE, objs |-> store.rooms]
        /\ loadFetched[p].functions = [ok |-> TRUE, objs |-> store.functions])
    => LET single(r, f) ==
               AllMaps = [rooms |-> r.map, stateToRooms |-> r.rev,
                          functions |-> f.map, stateToFunctions |-> f.rev]
       IN  single(FillEnum(store.rooms, 1, Str.enum_rooms, <<>>, <<>>),
                  FillEnum(store.functions, 1, Str.enum_functions, <<>>, <<>>))

\* ---------------------------------------------------------------------------
\* Two commands on one state: specification SpecRace
\*
\* AudioServer._handleTextInput awaits onAudio for each HTTP request and the
\* adapter keeps no queue or lock, so two _processText calls run interleaved
\* at their awaits.  Both carry an increase (or a decrease) for the same
\* numeric state; each one's getForeignStateAsync and setForeignStateAsync
\* (lines 433-455) are separate steps
\* ---------------------------------------------------------------------------

RaceProcs == {1, 2}

\* the intent both commands carry
RaceIntent ==
    [NullIntent EXCEPT !.isNull = FALSE, !.action = race.action, !.room = Str.Bad,
                       !.confidence = One, !.stateIds = <<race.stateId>>]

\* lines 433-434, 442-443: await getForeignStateAsync(stateId) resolves with
\* the value the state holds at that moment
RaceRead(p) ==
    /\ race.pc[p] = "idle"
    /\ race' = [race EXCEPT !.pc[p] = "read", !.current[p] = race.val]
    /\ UNCHANGED <<store, resolverVars, findVars, loadVars, parseVars, confVars, pureVars, execVars, llm>>

\* lines 435-455: the value computed from what was read is written with
\* setForeignStateAsync
RaceWrite(p) ==
    /\ race.pc[p] = "read"
    /\ LET outcome == TargetOutcome(RaceIntent,
                                    [ok |-> TRUE, obj |-> getForeignObject(Objects, race.stateId)],
                                    [ok |-> TRUE, state |-> TRUE, val |-> <<race.current[p]>>])
       IN  race' = [race EXCEPT !.pc[p] = "done",
                                !.val = IF outcome.kind = "write" THEN outcome.value.n[1] ELSE @]
    /\ UNCHANGED <<store, resolverVars, findVars, loadVars, parseVars, confVars, pureVars, execVars, llm>>

InitRace ==
    /\ store = StoreA
    /\ rooms = <<>> /\ functions = <<>>
    /\ stateToRooms = <<>> /\ stateToFunctions = <<>>
    /\ fsArgs = [room |-> Undefined, function |-> Undefined]
    /\ fsPc = "idle"
    /\ fsResult = <<>>
    /\ LoadIdle
    /\ ParseIdle
    /\ ConfIdle
    /\ ExecIdle
    /\ PureIdle
    /\ LlmIdle
    /\ \E id \in {Str.st_decke, Str.st_temp}, action \in {"increase", "decrease"},
          v \in {0, 1, 20, 29, 85, 95} :
          race = [NoRace EXCEPT !.stateId = id, !.action = action, !.before = v, !.val = v]

NextRace ==
    \/ \E p \in RaceProcs : RaceRead(p)
    \/ \E p \in RaceProcs : RaceWrite(p)

SpecRace == InitRace /\ [][NextRace]_vars

\* C27: no lost update: when two increase (or two decrease) commands on the
\* same numeric state were processed by overlapping _processText calls, the
\* stored value moved by two steps: two increases from v end at
\* min(v + 2*step, max), two decreases at max(v - 2*step, min).
C27_NoLostUpdate ==
    (\A p \in RaceProcs : race.pc[p] = "done")
    => LET obj  == getForeignObject(Objects, race.stateId)
           temp == Includes(obj.role, <<"t","e","m","p","e","r","a","t","u","r","e">>)
           step == IF temp THEN 1 ELSE 10
           max  == IF obj.max # <<>> THEN obj.max[1] ELSE IF temp THEN 30 ELSE 100
           min  == IF obj.min # <<>> THEN obj.min[1] ELSE 0
       IN  race.val = IF race.action = "increase"
                      THEN Min({race.before + 2 * step, max})
                      ELSE Max({race.before - 2 * step, min})

----------------------------------------------------------------------------
(* Claims about _processText's choice of the fast path (SpecExec, SpecParse) *)

\* C28: a query intent never causes a fast-path write: once _processText has
\* left its parse step with an intent whose action is query, or with any
\* intent while the resolver has no rooms loaded, _executeFastIntent was not
\* called, no state write was issued and lastResponse was not set: the text
\* went to the LLM pipeline.
C28_QueryNeverFast ==
    (/\ ptPc # "idle"
     /\ ~exec.intent.isNull
     /\ exec.intent.action = "query" \/ Len(rooms) = 0)
    => /\ ptPc = "llm"
       /\ exec.pc = "idle"
       /\ writes = <<>>
       /\ lastResponse = FALSE

C28_Witness ==
    /\ ptPc = "llm"
    /\ exec.intent.action = "query"
    /\ exec.intent.confidence = One
    /\ exec.intent.stateIds = <<Str.st_spiegel>>
    /\ Len(rooms) > 0
    /\ writes = <<>>

\* the confidence the claim gives an intent by its kind: 0.7 or 0.75 for a
\* query with only a room or only a function, 0.85 for a direct device
\* match, and for an intent with room and function the values in both
BySide(intent, both) ==
    IF intent.room = Undefined /\ intent.function = Undefined
    THEN intent.confidence = DirectConfidence
    ELSE IF intent.room = Undefined \/ intent.function = Undefined
    THEN intent.action = "query" /\ intent.confidence \in {<<14, 0>>, <<15, 0>>}
    ELSE intent.confidence \in both

\* C29: every intent parse() returns has confidence at least 0.7: 0.7 or
\* 0.75 for a one-sided query, 0.85 for a direct device match, 1.0 for any
\* room+function intent; so the 0.6 threshold of _processText never rejects
\* a parsed intent.
C29_ConfidenceValues ==
    PReturnedIntent =>
        /\ BySide(parseIntent, {One})
        /\ ~FLess(parseIntent.confidence, <<14, 0>>)
        /\ ~FLess(parseIntent.confidence, <<12, 0>>)

\* C29 (amended): every intent parse() returns has confidence at least 0.7:
\* 0.7 or 0.75 for a one-sided query, 0.85 for a direct device match, and
\* 0.9999999999999999 or 1.0 for a room+function intent (1.0 when a value
\* was extracted for set_value or a device name narrowed the result); so the
\* 0.6 threshold of _processText never rejects a parsed intent.
C29_ConfidenceAtLeast07 ==
    PReturnedIntent =>
        /\ BySide(parseIntent, {One, <<20, -1>>})
        /\ (parseIntent.room # Undefined /\ parseIntent.function # Undefined)
              => (parseIntent.confidence = One
                     <=> \/ parseIntent.action = "set_value" /\ parseIntent.value # NullNum
                         \/ parseIntent.deviceName # Undefined)
        /\ ~FLess(parseIntent.confidence, <<14, 0>>)
        /\ ~FLess(parseIntent.confidence, <<12, 0>>)

\* a room+function intent without a value and without a device name has
\* been returned: its confidence is 0.9999999999999999, above the threshold
C29_Witness ==
    /\ PReturnedIntent
    /\ parseIntent.room # Undefined /\ parseIntent.function # Undefined
    /\ parseIntent.action \in WriteActions
    /\ parseIntent.deviceName = Undefined
    /\ parseIntent.confidence = <<20, -1>>
    /\ ~FLess(parseIntent.confidence, <<12, 0>>)

----------------------------------------------------------------------------
(* ActionExecutor: the writes the LLM proposes against the template's
   whitelist: specification SpecLlm *)

\* TemplateEngine._matchPattern(id, pattern): the pattern becomes the regular
\* expression ^...$ in which a dot is a literal dot and * is [^.]*; the
\* characters of the ids here (letters, digits, _ and -) stand for themselves
_matchPattern(id, pattern) ==
    LET RECURSIVE test(_, _)
        test(i, j) ==
            IF j > Len(pattern) THEN i > Len(id)
            ELSE IF pattern[j] = "*"
            THEN test(i, j + 1) \/ (i <= Len(id) /\ id[i] # "." /\ test(i + 1, j))
            ELSE i <= Len(id) /\ id[i] = pattern[j] /\ test(i + 1, j + 1)
    IN  test(1, 1)

\* TemplateEngine.isActionAllowed(template, stateId): false without
\* allowedActions, else some pattern matches
isActionAllowed(template, stateId) ==
    /\ template.has
    /\ \E k \in 1..Len(template.patterns) : _matchPattern(stateId, template.patterns[k])

\* the active template: without allowedActions, with an empty list, with
\* exact ids and with wildcards
Templates ==
    {[has |-> FALSE, patterns |-> <<>>],
     [has |-> TRUE, patterns |-> <<>>],
     [has |-> TRUE, patterns |-> <<<<"h","u","e",".","0",".","*",".","o","n">>>>],
     [has |-> TRUE, patterns |-> <<Str.st_spiegel, <<"*",".","0",".","f","a","n">>>>],
     [has |-> TRUE, patterns |-> <<<<"h","u","e",".","*">>, <<"a",".","*">>>>]}

\* what the LLM proposes: writes to a boolean, a number and a string state,
\* to a read-only state, to an id without an object, and objects that lack
\* the stateId or the value
Proposals ==
    {[stateId |-> Str.st_spiegel, value |-> JsBool(TRUE)],
     [stateId |-> Str.st_decke, value |-> JsBool(TRUE)],
     [stateId |-> Str.fan, value |-> JsNum(<<1, 0>>)],
     [stateId |-> Str.st_lock, value |-> JsNum(<<1, 0>>)],
     [stateId |-> Str.a_b, value |-> JsNum(<<1, 0>>)],
     [stateId |-> Undefined, value |-> JsNum(<<1, 0>>)],
     [stateId |-> Str.st_temp, value |-> [type |-> "undefined", b |-> FALSE, n |-> <<0, 0>>]]}

\* execute without the permission check
ExecuteStep_noPermissionCheck ==
    /\ llm.mode = "execute"
    /\ llm.pc = "loop"
    /\ llm.i <= Len(llm.actions)
    /\ \E fetched \in FetchOutcomes(llm.actions[llm.i].stateId), wrote \in BOOLEAN :
         LET action == llm.actions[llm.i]
             obj == fetched.obj
             \* Number(value), Boolean(value), String(value); a string holds
             \* the text of the value kept in b and n
             value == CASE obj.type = "number" ->
                               IF action.value.type = "boolean"
                               THEN JsNum(IF action.value.b THEN <<1, 0>> ELSE <<0, 0>>)
                               ELSE action.value
                        [] obj.type = "boolean" ->
                               IF action.value.type = "number"
                               THEN JsBool(action.value.n[1] # 0)
                               ELSE action.value
                        [] obj.type = "string" -> [action.value EXCEPT !.type = "string"]
                        [] OTHER -> action.value
             deny(reason) == Append(llm.denied, [stateId |-> action.stateId, value |-> action.value,
                                                 reason |-> reason])
             next == [llm EXCEPT !.i = llm.i + 1]
         IN  llm' = IF action.stateId = Undefined \/ action.stateId = <<>> \/ action.value.type = "undefined"
                    THEN next
                    ELSE IF ~fetched.ok
                    THEN [next EXCEPT !.denied = deny("getForeignObject")]
                    ELSE IF obj.id = Undefined
                    THEN [next EXCEPT !.denied = deny("State not found")]
                    ELSE IF ~wrote
                    THEN [next EXCEPT !.writes = Append(llm.writes, [stateId |-> action.stateId, value |-> value, ok |-> FALSE]),
                                      !.denied = deny("setForeignState")]
                    ELSE [next EXCEPT !.writes = Append(llm.writes, [stateId |-> action.stateId, value |-> value, ok |-> TRUE]),
                                      !.executed = Append(llm.executed, [stateId |-> action.stateId, value |-> action.value,
                                                                         actualValue |-> value])]
    /\ UNCHANGED <<store, resolverVars, findVars, loadVars, parseVars, confVars, pureVars, execVars, race>>

\* ActionExecutor.execute lines 214-250: one iteration of the loop over the
\* parsed actions; the two awaits may reject
ExecuteStep ==
    /\ llm.mode = "execute"
    /\ llm.pc = "loop"
    /\ llm.i <= Len(llm.actions)
    /\ \E fetched \in FetchOutcomes(llm.actions[llm.i].stateId), wrote \in BOOLEAN :
         LET action == llm.actions[llm.i]
             obj == fetched.obj
             \* Number(value), Boolean(value), String(value); a string holds
             \* the text of the value kept in b and n
             value == CASE obj.type = "number" ->
                               IF action.value.type = "boolean"
                               THEN JsNum(IF action.value.b THEN <<1, 0>> ELSE <<0, 0>>)
                               ELSE action.value
                        [] obj.type = "boolean" ->
                               IF action.value.type = "number"
                               THEN JsBool(action.value.n[1] # 0)
                               ELSE action.value
                        [] obj.type = "string" -> [action.value EXCEPT !.type = "string"]
                        [] OTHER -> action.value
             deny(reason) == Append(llm.denied, [stateId |-> action.stateId, value |-> action.value,
                                                 reason |-> reason])
             next == [llm EXCEPT !.i = llm.i + 1]
         IN  llm' = IF action.stateId = Undefined \/ action.stateId = <<>> \/ action.value.type = "undefined"
                    THEN next
                    ELSE IF ~isActionAllowed(llm.template, action.stateId)
                    THEN [next EXCEPT !.denied = deny("none")]
                    ELSE IF ~fetched.ok
                    THEN [next EXCEPT !.denied = deny("getForeignObject")]
                    ELSE IF obj.id = Undefined
                    THEN [next EXCEPT !.denied = deny("State not found")]
                    ELSE IF ~wrote
                    THEN [next EXCEPT !.writes = Append(llm.writes, [stateId |-> action.stateId, value |-> value, ok |-> FALSE]),
                                      !.denied = deny("setForeignState")]
                    ELSE [next EXCEPT !.writes = Append(llm.writes, [stateId |-> action.stateId, value |-> value, ok |-> TRUE]),
                                      !.executed = Append(llm.executed, [stateId |-> action.stateId, value |-> action.value,
                                                                         actualValue |-> value])]
    /\ UNCHANGED <<store, resolverVars, findVars, loadVars, parseVars, confVars, pureVars, execVars, race>>

\* execute lines 209-211, 253: return { executed, denied, text }
ExecuteReturn ==
    /\ llm.mode = "execute"
    /\ llm.pc = "loop"
    /\ llm.i > Len(llm.actions)
    /\ llm' = [llm EXCEPT !.pc = "returned"]
    /\ UNCHANGED <<store, resolverVars, findVars, loadVars, parseVars, confVars, pureVars, execVars, race>>

\* ActionExecutor._toolSetState(args, template, executed, denied): the
\* handler of one setState tool call; it answers with a JSON string
ToolSetState ==
    /\ llm.mode = "tool"
    /\ llm.pc = "loop"
    /\ llm.i <= Len(llm.actions)
    /\ \E fetched \in FetchOutcomes(llm.actions[llm.i].stateId), wrote \in BOOLEAN :
         LET args == llm.actions[llm.i]
             obj == fetched.obj
             coercedValue == CASE obj.type = "number" ->
                                      IF args.value.type = "boolean"
                                      THEN JsNum(IF args.value.b THEN <<1, 0>> ELSE <<0, 0>>)
                                      ELSE args.value
                               [] obj.type = "boolean" ->
                                      IF args.value.type = "number"
                                      THEN JsBool(args.value.n[1] # 0)
                                      ELSE args.value
                               [] obj.type = "string" -> [args.value EXCEPT !.type = "string"]
                               [] OTHER -> args.value
             deny(reason) == Append(llm.denied, [stateId |-> args.stateId, value |-> args.value,
                                                 reason |-> reason])
             reply(r) == [llm EXCEPT !.i = llm.i + 1, !.replies = Append(llm.replies, r)]
         IN  llm' = IF args.stateId = Undefined \/ args.stateId = <<>> \/ args.value.type = "undefined"
                    THEN reply("error")
                    ELSE IF ~isActionAllowed(llm.template, args.stateId)
                    THEN [reply("error") EXCEPT !.denied = deny("Not in whitelist")]
                    ELSE IF ~fetched.ok
                    THEN [reply("error") EXCEPT !.denied = deny("getForeignObject")]
                    ELSE IF obj.id = Undefined
                    THEN [reply("error") EXCEPT !.denied = deny("State not found")]
                    ELSE IF ~wrote
                    THEN [reply("error") EXCEPT !.writes = Append(llm.writes, [stateId |-> args.stateId, value |-> coercedValue, ok |-> FALSE]),
                                                !.denied = deny("setForeignState")]
                    ELSE [reply("success") EXCEPT !.writes = Append(llm.writes, [stateId |-> args.stateId, value |-> coercedValue, ok |-> TRUE]),
                                                  !.executed = Append(llm.executed, [stateId |-> args.stateId, value |-> coercedValue])]
    /\ UNCHANGED <<store, resolverVars, findVars, loadVars, parseVars, confVars, pureVars, execVars, race>>

\* execute(llmResponse, template) with the actions _parseActions found, or
\* createToolExecutor(template) and the setState calls the LLM makes
InitLlm ==
    /\ store = StoreA
    /\ rooms = <<>> /\ functions = <<>>
    /\ stateToRooms = <<>> /\ stateToFunctions = <<>>
    /\ fsArgs = [room |-> Undefined, function |-> Undefined]
    /\ fsPc = "idle"
    /\ fsResult = <<>>
    /\ LoadIdle
    /\ ParseIdle
    /\ ConfIdle
    /\ ExecIdle
    /\ PureIdle
    /\ RaceIdle
    /\ \E mode \in {"execute", "tool"}, template \in Templates,
          actions \in UNION {[1..n -> Proposals] : n \in 0..MaxActions} :
          llm = [NoLlm EXCEPT !.mode = mode, !.template = template, !.actions = actions,
                              !.i = 1, !.pc = "loop"]

NextLlm ==
    \/ ExecuteStep
    \/ ExecuteReturn
    \/ ToolSetState

SpecLlm == InitLlm /\ [][NextLlm]_vars

\* the proposals handled so far that carry a stateId and a value
HandledValid ==
    {j \in 1..(llm.i - 1) :
        /\ llm.actions[j].stateId # Undefined
        /\ llm.actions[j].stateId # <<>>
        /\ llm.actions[j].value.type # "undefined"}

\* C30: LLM-proposed writes respect the template whitelist, in execute and
\* in the setState tool: no write is issued for a state id that matches none
\* of the template's allowedActions patterns; each such proposal is recorded
\* in the denied list (without a reason by execute, with 'Not in whitelist'
\* by the tool); and the proposals after it are still processed: each valid
\* proposal ends in executed or in denied, and execute returns only after
\* the last one.
C30_WhitelistRespected ==
    LET notAllowed == {j \in HandledValid : ~isActionAllowed(llm.template, llm.actions[j].stateId)}
        byWhitelist == {d \in 1..Len(llm.denied) : llm.denied[d].reason \in {"none", "Not in whitelist"}}
    IN  /\ \A k \in 1..Len(llm.writes) : isActionAllowed(llm.template, llm.writes[k].stateId)
        /\ \A k \in 1..Len(llm.executed) : isActionAllowed(llm.template, llm.executed[k].stateId)
        /\ \A j \in notAllowed :
              \E d \in byWhitelist : /\ llm.denied[d].stateId = llm.actions[j].stateId
                                     /\ llm.denied[d].value = llm.actions[j].value
        /\ Cardinality(byWhitelist) = Cardinality(notAllowed)
        /\ Len(llm.executed) + Len(llm.denied) = Cardinality(HandledValid)
        /\ llm.pc = "returned" => llm.i = Len(llm.actions) + 1

\* execute has returned after a proposal outside the whitelist, now in the
\* denied list, was followed by an allowed one, which was written
C30_Witness ==
    /\ llm.mode = "execute"
    /\ llm.pc = "returned"
    /\ Len(llm.actions) = 2
    /\ ~isActionAllowed(llm.template, llm.actions[1].stateId)
    /\ llm.denied = <<[stateId |-> llm.actions[1].stateId, value |-> llm.actions[1].value, reason |-> "none"]>>
    /\ Len(llm.writes) = 1
    /\ llm.writes[1].stateId = llm.actions[2].stateId
    /\ llm.writes[1].ok

====
